---- MODULE Spec2Model ----
(***************************************************************************)
(* Layered configuration resolution of the Prep-Stage plugin:              *)
(*   src/src/defaults/variable_merger.py   VariableMerger (deep merge)     *)
(*   src/src/defaults_processor.py         DefaultsProcessor (resolution)  *)
(*   src/src/defaults/*.py, git_integration/file_loader.py (layer lookup)  *)
(*                                                                         *)
(* JSON values are tagged records, so that values of different kinds can   *)
(* be compared: null, strings, numbers, lists (sequences) and dicts        *)
(* (functions from a finite set of key strings).  Booleans and floats are  *)
(* left out of the value universe: Python's == identifies True, 1 and 1.0, *)
(* and on the kinds kept here Python's == is structural equality.          *)
(* A Python exception leaving a function is the value TypeError.           *)
(***************************************************************************)
EXTENDS Integers, Sequences, FiniteSets, TLC

VARIABLES
    pc,               \* position of the caller
    lower_priority,   \* merge_variables: first argument
    higher_priority,  \* merge_variables: second argument
    ui_variables,     \* apply_priority_chain: base (the entry's own values)
    priority_configs, \* apply_priority_chain: layers, ascending priority
    steps,            \* apply_priority_chain: the accumulator after each layer
    result,           \* value returned by the last call (or TypeError)
    result2,          \* value returned by resolving `result` again
    grouped,          \* <<merge(merge(B, L1), L2), merge(B, merge(L1, L2))>>
    entry,            \* _process_single_entry: the resource entry
    cloud_project,    \* _process_single_entry: the cloud project (or None)
    products_repo_path,   \* DefaultsProcessor: checkout of the products repository
    overrides_repo_path,  \* DefaultsProcessor: checkout of the overrides repository
    layer_files,      \* the four layer files the entry's lookups address
    to_applyto_apply, \* _process_single_entry: the layers collected
    lookups,          \* the layers whose loader _process_single_entry called
    reports,          \* what each loader logged: not_found, error or loaded
    resource_entries,     \* process_resource_entries: the batch
    cloud_project_arg,    \* process_resource_entries: the cloud_project argument
    config_cloud_project, \* EnhancedPluginConfig.cloud_project
    is_git_configured,    \* EnhancedPluginConfig.is_git_configured
    repo_files,           \* the files of the two checkouts, by relative path
    entry_num,            \* process_resource_entries: the loop index
    processed_entries,    \* process_resource_entries: the list being built
    entry_lookups,        \* the loaders called for each entry processed
    environ,              \* os.environ and the remote, as the run finds them
    config,               \* EnhancedDronePlugin.config (PluginConfig)
    enhanced_config,      \* EnhancedDronePlugin.enhanced_config
    defaults_processor,   \* EnhancedDronePlugin.defaults_processor
    cloned,               \* the repository directories in the work directory
    retry_count,          \* execute_action: retry_count
    process_calls,        \* calls of action_processor.process so far
    outputs,              \* OutputManager.outputs (its keys)
    exported,             \* environment variables set by add_output
    stages,               \* the stages of run performed so far, in order
    body,                 \* the run body executing: enhanced, or base (super().run())
    exit_code,            \* what run returned (NotReturned before)
    heap,                 \* the Python objects (dicts and lists), by address
    roots,                \* the documents the caller holds: inputs, then results
    before                \* the value of each input document when it was built

vars == <<pc, lower_priority, higher_priority, ui_variables, priority_configs,
          steps, result, result2, grouped, entry, cloud_project,
          products_repo_path, overrides_repo_path, layer_files, to_applyto_apply,
          lookups, reports, resource_entries, cloud_project_arg,
          config_cloud_project, is_git_configured, repo_files, entry_num,
          processed_entries, entry_lookups, environ, config, enhanced_config,
          defaults_processor, cloned, retry_count, process_calls, outputs,
          exported, stages, body, exit_code, heap, roots, before>>

\* The Python object store and the caller's references into it.
store == <<heap, roots, before>>

\* The state of an EnhancedDronePlugin run.
plugin == <<environ, config, enhanced_config, defaults_processor, cloned,
            retry_count, process_calls, outputs, exported, stages, body,
            exit_code>>

\* The state of the DefaultsProcessor.
processor == <<entry, cloud_project, products_repo_path, overrides_repo_path,
               layer_files, to_applyto_apply, lookups, reports>>

----------------------------------------------------------------------------
(* JSON values *)

JNull == [t |-> "null"]
Str(s) == [t |-> "str", s |-> s]
Num(n) == [t |-> "num", n |-> n]
List(q) == [t |-> "list", l |-> q]
Dict(f) == [t |-> "dict", d |-> f]
TypeError == [t |-> "TypeError"]
Unset == [t |-> "unset"]

EmptyDict == Dict([k \in {} |-> JNull])

IsNone(v) == v.t = "null"
IsStr(v) == v.t = "str"
IsNum(v) == v.t = "num"
IsList(v) == v.t = "list"
IsDict(v) == v.t = "dict"
IsScalar(v) == v.t \in {"null", "str", "num"}

Keys(v) == DOMAIN v.d
HasKey(v, k) == IsDict(v) /\ k \in Keys(v)

\* Python truthiness (bool(v)), as used by `if not x` / `if x`.
Truthy(v) ==
    CASE IsNone(v) -> FALSE
      [] IsStr(v)  -> v.s # ""
      [] IsNum(v)  -> v.n # 0
      [] IsList(v) -> Len(v.l) > 0
      [] IsDict(v) -> Keys(v) # {}

\* Strings of the universe that have "key" as a substring ('key' in "monkey").
StrsWithKey == {"key", "monkey"}

\* Python's `'key' in v`: "yes", "no", or "raise" (TypeError: not iterable).
InKey(v) ==
    CASE IsDict(v) -> IF "key" \in Keys(v) THEN "yes" ELSE "no"
      [] IsStr(v)  -> IF v.s \in StrsWithKey THEN "yes" ELSE "no"
      [] IsList(v) -> IF \E i \in 1..Len(v.l) : v.l[i] = Str("key") THEN "yes" ELSE "no"
      [] OTHER     -> "raise"

\* hash(v) raises TypeError for lists and dicts.
Hashable(v) == IsScalar(v)

----------------------------------------------------------------------------
(* VariableMerger *)

\* _is_tag_list: a non-empty list of dicts that all have a 'key' field.
_is_tag_list(items) ==
    /\ IsList(items)
    /\ Len(items.l) > 0
    /\ \A i \in 1..Len(items.l) : IsDict(items.l[i]) /\ "key" \in Keys(items.l[i])

\* _merge_tag_lists: higher tags, then the lower tags whose key is not among
\* higher's keys.  A lower element without 'key' is skipped; a lower element
\* on which `'key' in x` or `x['key']` fails raises TypeError.
_merge_tag_lists(lower_tags, higher_tags) ==
    LET hi == higher_tags.l
        lo == lower_tags.l
        \* the dict comprehension over higher_tags
        hiBad == \E i \in 1..Len(hi) :
                    \/ InKey(hi[i]) = "raise"
                    \/ InKey(hi[i]) = "yes" /\ ~IsDict(hi[i])
                    \/ InKey(hi[i]) = "yes" /\ IsDict(hi[i]) /\ ~Hashable(hi[i].d["key"])
        higher_tag_keys == {hi[i].d["key"] : i \in {j \in 1..Len(hi) : HasKey(hi[j], "key")}}
        \* the loop over lower_tags
        loBad == \E i \in 1..Len(lo) :
                    \/ InKey(lo[i]) = "raise"
                    \/ InKey(lo[i]) = "yes" /\ ~IsDict(lo[i])
                    \/ InKey(lo[i]) = "yes" /\ IsDict(lo[i]) /\ ~Hashable(lo[i].d["key"])
        keep(x) == InKey(x) = "yes" /\ x.d["key"] \notin higher_tag_keys
    IN  IF hiBad \/ loBad THEN TypeError
        ELSE List(hi \o SelectSeq(lo, keep))

\* Mutant: the lower items are appended without the `not in result` test.
PlainUnion_no_dedupe(lower_list, higher_list) ==
    List(higher_list.l \o lower_list.l)

\* Mutant: the lower list is appended as one item (append for extend).
PlainUnion_appends_list(lower_list, higher_list) ==
    List(Append(higher_list.l, lower_list))

\* The plain branch of _merge_lists: a copy of higher, then every lower item
\* that is not yet `in result`.
PlainUnion(lower_list, higher_list) ==
    LET lo == lower_list.l
        acc[i \in 0..Len(lo)] ==
            IF i = 0 THEN higher_list.l
            ELSE IF \E j \in 1..Len(acc[i - 1]) : acc[i - 1][j] = lo[i]
                 THEN acc[i - 1]
                 ELSE Append(acc[i - 1], lo[i])
    IN  List(acc[Len(lo)])

\* The keys for which _merge_lists takes the keyed (tag) branch.
TagKeyNames == {"additional_tags", "tags"}

\* Mutant: the keyed branch is taken for a tag-list under any key.
_merge_lists_any_key(lower_list, higher_list, key) ==
    IF _is_tag_list(higher_list)
    THEN _merge_tag_lists(lower_list, higher_list)
    ELSE PlainUnion(lower_list, higher_list)

_merge_lists(lower_list, higher_list, key) ==
    IF key \in TagKeyNames /\ _is_tag_list(higher_list)
    THEN _merge_tag_lists(lower_list, higher_list)
    ELSE PlainUnion(lower_list, higher_list)

RECURSIVE _merge_values(_, _, _)
RECURSIVE _merge_dictionaries(_, _, _)

\* Mutant: no `if higher_value is None: return lower_value`; a null wins.
_merge_values_null_wins(lower_value, higher_value, key) ==
    IF IsNone(lower_value) \/ IsNone(higher_value) THEN higher_value
    ELSE IF IsList(lower_value) /\ IsList(higher_value)
         THEN _merge_lists(lower_value, higher_value, key)
    ELSE IF IsDict(lower_value) /\ IsDict(higher_value)
         THEN _merge_dictionaries(lower_value, higher_value, key)
    ELSE higher_value

\* Mutant: the last line returns lower_value.
_merge_values_lower_wins(lower_value, higher_value, key) ==
    IF IsNone(higher_value) THEN lower_value
    ELSE IF IsNone(lower_value) THEN higher_value
    ELSE IF IsList(lower_value) /\ IsList(higher_value)
         THEN _merge_lists(lower_value, higher_value, key)
    ELSE IF IsDict(lower_value) /\ IsDict(higher_value)
         THEN _merge_dictionaries(lower_value, higher_value, key)
    ELSE lower_value

_merge_values(lower_value, higher_value, key) ==
    IF IsNone(higher_value) THEN lower_value
    ELSE IF IsNone(lower_value) THEN higher_value
    ELSE IF IsList(lower_value) /\ IsList(higher_value)
         THEN _merge_lists(lower_value, higher_value, key)
    ELSE IF IsDict(lower_value) /\ IsDict(higher_value)
         THEN _merge_dictionaries(lower_value, higher_value, key)
    ELSE higher_value

_merge_dictionaries(lower_dict, higher_dict, key) ==
    LET lo == lower_dict.d
        hi == higher_dict.d
        m == [k \in (DOMAIN lo) \cup (DOMAIN hi) |->
                IF k \notin DOMAIN hi THEN lo[k]
                ELSE IF k \notin DOMAIN lo THEN hi[k]
                ELSE _merge_values(lo[k], hi[k], key \o "." \o k)]
    IN  IF \E k \in DOMAIN m : m[k] = TypeError THEN TypeError ELSE Dict(m)

\* Mutant: the result is built from higher's items only (lower-only keys lost).
merge_variables_higher_keys(lower, higher) ==
    IF ~Truthy(lower) THEN (IF Truthy(higher) THEN higher ELSE EmptyDict)
    ELSE IF ~Truthy(higher) THEN lower
    ELSE LET lo == lower.d
             hi == higher.d
             m == [k \in DOMAIN hi |->
                     IF k \notin DOMAIN lo THEN hi[k]
                     ELSE _merge_values(lo[k], hi[k], k)]
         IN  IF \E k \in DOMAIN m : m[k] = TypeError THEN TypeError ELSE Dict(m)

\* Mutant: an empty higher mapping yields {} instead of a copy of lower.
merge_variables_empty_higher(lower, higher) ==
    IF ~Truthy(lower) THEN (IF Truthy(higher) THEN higher ELSE EmptyDict)
    ELSE IF ~Truthy(higher) THEN EmptyDict
    ELSE LET lo == lower.d
             hi == higher.d
             m == [k \in (DOMAIN lo) \cup (DOMAIN hi) |->
                     IF k \notin DOMAIN hi THEN lo[k]
                     ELSE IF k \notin DOMAIN lo THEN hi[k]
                     ELSE _merge_values(lo[k], hi[k], k)]
         IN  IF \E k \in DOMAIN m : m[k] = TypeError THEN TypeError ELSE Dict(m)

merge_variables(lower, higher) ==
    IF ~Truthy(lower) THEN (IF Truthy(higher) THEN higher ELSE EmptyDict)
    ELSE IF ~Truthy(higher) THEN lower
    ELSE LET lo == lower.d
             hi == higher.d
             m == [k \in (DOMAIN lo) \cup (DOMAIN hi) |->
                     IF k \notin DOMAIN hi THEN lo[k]
                     ELSE IF k \notin DOMAIN lo THEN hi[k]
                     ELSE _merge_values(lo[k], hi[k], k)]
         IN  IF \E k \in DOMAIN m : m[k] = TypeError THEN TypeError ELSE Dict(m)

\* A call whose argument is itself the outcome of a call that raised.
MergeOrRaise(lower, higher) ==
    IF lower = TypeError \/ higher = TypeError THEN TypeError
    ELSE merge_variables(lower, higher)

\* Mutant: an empty layer is not skipped and replaces the accumulated value.
ChainSteps_empty_wipes(ui, configs) ==
    LET acc[i \in 0..Len(configs)] ==
            IF i = 0 THEN ui
            ELSE IF acc[i - 1] = TypeError THEN TypeError
            ELSE IF Truthy(configs[i]) THEN merge_variables(acc[i - 1], configs[i])
            ELSE configs[i]
    IN  [i \in 1..(Len(configs) + 1) |-> acc[i - 1]]

\* apply_priority_chain: the accumulator before the loop (index 1) and after
\* each layer (index i + 1); an empty (falsy) layer is skipped.
ChainSteps(ui, configs) ==
    LET acc[i \in 0..Len(configs)] ==
            IF i = 0 THEN ui
            ELSE IF acc[i - 1] = TypeError THEN TypeError
            ELSE IF Truthy(configs[i]) THEN merge_variables(acc[i - 1], configs[i])
            ELSE acc[i - 1]
    IN  [i \in 1..(Len(configs) + 1) |-> acc[i - 1]]

apply_priority_chain(ui, configs) == ChainSteps(ui, configs)[Len(configs) + 1]


\* The state of a process_resource_entries call.
batch == <<resource_entries, cloud_project_arg, config_cloud_project,
           is_git_configured, repo_files, entry_num, processed_entries,
           entry_lookups>>

\* No batch is being processed.
BatchIdle ==
    /\ resource_entries = <<>>
    /\ cloud_project_arg = JNull
    /\ config_cloud_project = JNull
    /\ is_git_configured = FALSE
    /\ repo_files = <<>>
    /\ entry_num = 0
    /\ processed_entries = <<>>
    /\ entry_lookups = <<>>

NotReturned == -1

\* No plugin run is under way.
PluginIdle ==
    /\ environ = Unset
    /\ config = Unset
    /\ enhanced_config = Unset
    /\ defaults_processor = "None"
    /\ cloned = {}
    /\ retry_count = 0
    /\ process_calls = 0
    /\ outputs = {}
    /\ exported = {}
    /\ stages = <<>>
    /\ body = "enhanced"
    /\ exit_code = NotReturned

\* No object was built.
StoreIdle ==
    /\ heap = <<>>
    /\ roots = <<>>
    /\ before = <<>>

\* No entry is being processed.
ProcessorIdle ==
    /\ entry = Unset
    /\ cloud_project = JNull
    /\ products_repo_path = JNull
    /\ overrides_repo_path = JNull
    /\ layer_files = <<>>
    /\ to_applyto_apply = <<>>
    /\ lookups = {}
    /\ reports = <<>>

----------------------------------------------------------------------------
(* The value universe of the merge specification *)

MaxListLen == 2

Tag(k, v) == Dict([f \in {"key", "value"} |-> IF f = "key" THEN Str(k) ELSE Str(v)])
Keyless == Dict([f \in {"value"} |-> Str("x")])

Elems == {Num(1), Tag("env", "a"), Tag("env", "b"), Tag("team", "x"), Keyless}
Lists == {List(q) : q \in UNION {[1..n -> Elems] : n \in 0..MaxListLen}}
Scalars == {JNull, Str("a"), Num(1)}
Maps == {EmptyDict, Dict([f \in {"a"} |-> Str("a")])}
Values == Scalars \cup Lists \cup Maps

Absent == [t |-> "absent"]
TopKeys == {"tags", "additional_tags", "cfg"}
\* The keys of the two arguments: the same key, or `tags` beside `cfg`.
KeyPairs == {<<k, k>> : k \in TopKeys} \cup {<<"tags", "cfg">>, <<"cfg", "tags">>}

\* The document {k: v} (or {} when the key is absent), optionally one level
\* down: {"spec": {k: v}}.
MkDoc(k, v, nest) ==
    LET inner == IF v = Absent THEN EmptyDict ELSE Dict([f \in {k} |-> v])
    IN  IF nest THEN Dict([f \in {"spec"} |-> inner]) ELSE inner

----------------------------------------------------------------------------
(* Specification of one merge_variables call *)

InitMerge ==
    /\ pc = "call"
    /\ \E kk \in KeyPairs, nest \in BOOLEAN,
          lv \in Values \cup {Absent}, hv \in Values \cup {Absent} :
            /\ lower_priority = MkDoc(kk[1], lv, nest)
            /\ higher_priority = MkDoc(kk[2], hv, nest)
    /\ result = Unset
    /\ ui_variables = Unset
    /\ priority_configs = <<>>
    /\ steps = <<>>
    /\ result2 = Unset
    /\ grouped = <<>>
    /\ ProcessorIdle
    /\ BatchIdle
    /\ PluginIdle
    /\ StoreIdle

MergeVariables ==
    /\ pc = "call"
    /\ result' = merge_variables(lower_priority, higher_priority)
    /\ pc' = IF result' = TypeError THEN "raised" ELSE "returned"
    /\ UNCHANGED <<lower_priority, higher_priority, ui_variables,
                   priority_configs, steps, result2, grouped, processor, batch, plugin, store>>

NextMerge == MergeVariables

SpecMerge == InitMerge /\ [][NextMerge]_vars

----------------------------------------------------------------------------
(* Properties of merge_variables (SpecMerge) *)

\* The value at a key path of a document; Absent when the path is not there.
RECURSIVE At(_, _)
At(v, p) ==
    IF p = <<>> THEN v
    ELSE IF IsDict(v) /\ Head(p) \in Keys(v) THEN At(v.d[Head(p)], Tail(p))
    ELSE Absent

Paths == {<<k>> : k \in TopKeys} \cup {<<"spec", k>> : k \in TopKeys}
Present(v) == v # Absent
Range(q) == {q[i] : i \in 1..Len(q)}

NonMergeable(l, h) ==
    /\ Present(l) /\ Present(h)
    /\ l # JNull /\ h # JNull
    /\ ~(IsDict(l) /\ IsDict(h))
    /\ ~(IsList(l) /\ IsList(h))

\* C3: for every key present in both arguments with non-null values that are
\* not both mappings and not both lists, the call returns (raises nothing)
\* and the merged value is exactly higher's value.
C3_HigherWinsOnNonMergeable ==
    pc # "call" =>
        \A p \in Paths :
            NonMergeable(At(lower_priority, p), At(higher_priority, p))
            => (pc = "returned" /\ At(result, p) = At(higher_priority, p))

C3_Witness ==
    /\ pc = "returned"
    /\ IsDict(At(lower_priority, <<"cfg">>))
    /\ At(higher_priority, <<"cfg">>) = Num(1)
    /\ At(result, <<"cfg">>) = Num(1)

BothLists(p) == IsList(At(lower_priority, p)) /\ IsList(At(higher_priority, p))

\* The call's outcome at path p is `expected` (TypeError: the call raised).
OutcomeIs(p, expected) ==
    IF expected = TypeError THEN pc = "raised"
    ELSE pc = "returned" /\ At(result, p) = expected

KeyedApplies(p) ==
    /\ p \in {<<"tags">>, <<"additional_tags">>}
    /\ BothLists(p)
    /\ _is_tag_list(At(higher_priority, p))

KeysOf(q) == {q[i].d["key"] : i \in 1..Len(q)}

\* C6: when the keyed merge applies to lower list L and higher tag-list H,
\* the result is H in order, followed by exactly the elements of L that have
\* a `key` whose value is the `key` of no element of H, in their order.
C6_KeyedMergeResult ==
    pc # "call" =>
        \A p \in Paths :
            KeyedApplies(p) =>
                LET L == At(lower_priority, p).l
                    H == At(higher_priority, p).l
                    survives(x) == HasKey(x, "key") /\ x.d["key"] \notin KeysOf(H)
                IN  pc = "returned" /\ At(result, p) = List(H \o SelectSeq(L, survives))

\* The same, for the calls that return.
C6_KeyedMergeResultWhenReturned ==
    pc = "returned" =>
        \A p \in Paths :
            KeyedApplies(p) =>
                LET L == At(lower_priority, p).l
                    H == At(higher_priority, p).l
                    survives(x) == HasKey(x, "key") /\ x.d["key"] \notin KeysOf(H)
                IN  At(result, p) = List(H \o SelectSeq(L, survives))

C6_Witness ==
    /\ pc = "raised"
    /\ At(lower_priority, <<"tags">>) = List(<<Num(1)>>)
    /\ At(higher_priority, <<"tags">>) = List(<<Tag("env", "a")>>)

\* C25: when the keyed merge applies, every element of the lower list is in
\* the result or has the `key` of some element of higher; an element of lower
\* without `key` field is in the result.
C25_NoUnmatchedLowerElementLost ==
    pc = "returned" =>
        \A p \in Paths :
            KeyedApplies(p) =>
                LET L == At(lower_priority, p).l
                    H == At(higher_priority, p).l
                IN  \A i \in 1..Len(L) :
                        \/ L[i] \in Range(At(result, p).l)
                        \/ HasKey(L[i], "key") /\ L[i].d["key"] \in KeysOf(H)

\* C25, the part that holds: an element of lower that has a `key` field is in
\* the result or has the `key` of some element of higher.
C25_KeyedLowerElementsKept ==
    pc = "returned" =>
        \A p \in Paths :
            KeyedApplies(p) =>
                LET L == At(lower_priority, p).l
                    H == At(higher_priority, p).l
                IN  \A i \in 1..Len(L) :
                        HasKey(L[i], "key") =>
                            \/ L[i] \in Range(At(result, p).l)
                            \/ L[i].d["key"] \in KeysOf(H)

\* The lower element without `key` is gone, the one with another key is kept.
C25_Witness ==
    /\ pc = "returned"
    /\ At(lower_priority, <<"tags">>) = List(<<Keyless, Tag("team", "x")>>)
    /\ At(higher_priority, <<"tags">>) = List(<<Tag("env", "a")>>)
    /\ At(result, <<"tags">>) = List(<<Tag("env", "a"), Tag("team", "x")>>)

\* The positions of L whose element is not in H and not earlier in L.
NewPositions(L, H) ==
    {i \in 1..Len(L) : L[i] \notin Range(H) /\ \A j \in 1..(i - 1) : L[j] # L[i]}

\* R is H followed by the elements of L at NewPositions, in L's order.
IsUnionOf(R, L, H) ==
    LET new == NewPositions(L, H)
    IN  /\ Len(R) = Len(H) + Cardinality(new)
        /\ \A i \in 1..Len(H) : R[i] = H[i]
        /\ \A n \in 1..Cardinality(new) :
              \E i \in new : Cardinality({j \in new : j < i}) = n - 1
                              /\ R[Len(H) + n] = L[i]

C8_Total == pc # "raised"

C8_Witness ==
    /\ pc = "raised"
    /\ lower_priority = Dict([k \in {"tags"} |-> List(<<Num(1)>>)])
    /\ higher_priority = Dict([k \in {"tags"} |-> List(<<Tag("env", "a")>>)])

----------------------------------------------------------------------------
(* Specification of the priority chain: a base and two layers *)

MaxChainListLen == 1

ChainElems == {Num(1), Tag("env", "a"), Tag("env", "b")}
ChainLists == {List(q) : q \in UNION {[1..n -> ChainElems] : n \in 0..MaxChainListLen}}
ChainValues == {JNull, Str("a")} \cup ChainLists \cup {Dict([f \in {"a"} |-> Str("a")])}

ChainKeys == {"tags", "cfg"}

InitChain ==
    /\ pc = "start"
    /\ \E kb \in ChainKeys, k1 \in ChainKeys, k2 \in ChainKeys, nest \in BOOLEAN,
          vb \in ChainValues \cup {Absent}, v1 \in ChainValues \cup {Absent},
          v2 \in ChainValues \cup {Absent} :
            /\ ui_variables = MkDoc(kb, vb, nest)
            /\ priority_configs = <<MkDoc(k1, v1, nest), MkDoc(k2, v2, nest)>>
    /\ steps = <<>>
    /\ result = Unset
    /\ result2 = Unset
    /\ grouped = <<>>
    /\ ProcessorIdle
    /\ BatchIdle
    /\ PluginIdle
    /\ StoreIdle
    /\ lower_priority = Unset
    /\ higher_priority = Unset

\* resolve: the first call of apply_priority_chain
ApplyPriorityChain ==
    /\ pc = "start"
    /\ steps' = ChainSteps(ui_variables, priority_configs)
    /\ result' = apply_priority_chain(ui_variables, priority_configs)
    /\ pc' = IF result' = TypeError THEN "chain_raised" ELSE "resolved"
    /\ UNCHANGED <<lower_priority, higher_priority, ui_variables,
                   priority_configs, result2, grouped, processor, batch, plugin, store>>

\* resolve again: apply_priority_chain on the resolved value, same layers
ReApplyPriorityChain ==
    /\ pc = "resolved"
    /\ result2' = apply_priority_chain(result, priority_configs)
    /\ pc' = "reresolved"
    /\ UNCHANGED <<lower_priority, higher_priority, ui_variables,
                   priority_configs, steps, result, grouped, processor, batch, plugin, store>>

\* the two groupings of merge_variables over base, layer 1, layer 2
MergeGrouped ==
    /\ pc = "start"
    /\ grouped' = <<MergeOrRaise(MergeOrRaise(ui_variables, priority_configs[1]),
                                 priority_configs[2]),
                    MergeOrRaise(ui_variables,
                                 MergeOrRaise(priority_configs[1], priority_configs[2]))>>
    /\ pc' = "grouped"
    /\ UNCHANGED <<lower_priority, higher_priority, ui_variables,
                   priority_configs, steps, result, result2, processor, batch, plugin, store>>

NextChain == ApplyPriorityChain \/ ReApplyPriorityChain \/ MergeGrouped

SpecChain == InitChain /\ [][NextChain]_vars

----------------------------------------------------------------------------
(* Properties of apply_priority_chain (SpecChain) *)

ChainPaths ==
    {<<k>> : k \in ChainKeys} \cup {<<"spec">>} \cup {<<"spec", k>> : k \in ChainKeys}

\* The entry and the layers, in ascending priority.
Sources == <<ui_variables>> \o priority_configs

\* Every key of lower and of higher is a key of res, at every depth.
RECURSIVE KeysPreserved(_, _, _)
KeysPreserved(lo, hi, res) ==
    /\ IsDict(res)
    /\ Keys(res) = Keys(lo) \cup Keys(hi)
    /\ \A k \in Keys(lo) \cap Keys(hi) :
          (IsDict(lo.d[k]) /\ IsDict(hi.d[k]))
          => KeysPreserved(lo.d[k], hi.d[k], res.d[k])

\* C4: the key set of every merge of the chain is the union of the key sets
\* of its two arguments, at top level and in nested mappings; every
\* top-level key of the entry and of every applied layer is a key of the
\* final result; a key defined by one source only keeps that source's value.
C4_KeysNeverRemoved ==
    pc = "resolved" =>
        /\ \A i \in 1..Len(priority_configs) :
              Truthy(priority_configs[i])
              => KeysPreserved(steps[i], priority_configs[i], steps[i + 1])
        /\ \A i \in 1..Len(Sources) : Keys(Sources[i]) \subseteq Keys(result)
        /\ \A i \in 1..Len(Sources) : \A k \in Keys(Sources[i]) :
              (\A j \in 1..Len(Sources) : j # i => k \notin Keys(Sources[j]))
              => result.d[k] = Sources[i].d[k]

C4_Witness ==
    /\ pc = "resolved"
    /\ Keys(ui_variables) = {"tags"}
    /\ Keys(priority_configs[1]) = {"cfg"}
    /\ Keys(priority_configs[2]) = {"cfg"}
    /\ Keys(result) = {"tags", "cfg"}
    /\ result.d["tags"] = ui_variables.d["tags"]

Shape(v) == IF IsDict(v) THEN "mapping" ELSE IF IsList(v) THEN "list" ELSE "scalar"

\* At every key path the non-null values of the three mappings have one shape.
ConsistentShapes ==
    \A p \in ChainPaths : \A i, j \in 1..Len(Sources) :
        LET a == At(Sources[i], p)
            b == At(Sources[j], p)
        IN  (Present(a) /\ Present(b) /\ a # JNull /\ b # JNull)
            => Shape(a) = Shape(b)

\* The lists directly under a top-level tag key are all tag-lists, or none is.
TagListsUniform ==
    \A k \in TagKeyNames :
        LET ls == {v \in {At(Sources[i], <<k>>) : i \in 1..Len(Sources)} : IsList(v)}
        IN  (\A v \in ls : _is_tag_list(v)) \/ (\A v \in ls : ~_is_tag_list(v))

\* C9 as claimed, for the groupings that both return a value:
\* merge(merge(B, L1), L2) = merge(B, merge(L1, L2)).
C9_Associative ==
    (pc = "grouped" /\ grouped[1] # TypeError /\ grouped[2] # TypeError)
    => grouped[1] = grouped[2]

\* C9 amended: merge(merge(B, L1), L2) = merge(B, merge(L1, L2)), and both
\* return, for all B, L1, L2 whose non-null values at every key path have
\* the same shape and whose lists directly under a top-level `tags` or
\* `additional_tags` key are either all tag-lists or all not tag-lists.
C9_AssociativeOnUniformShapes ==
    (pc = "grouped" /\ ConsistentShapes /\ TagListsUniform)
    => (grouped[1] # TypeError /\ grouped[1] = grouped[2])

C9_Witness ==
    /\ pc = "grouped"
    /\ ConsistentShapes /\ TagListsUniform
    /\ At(Sources[1], <<"tags">>) = List(<<Tag("env", "a")>>)
    /\ At(Sources[2], <<"tags">>) = List(<<Tag("env", "b")>>)
    /\ At(Sources[3], <<"cfg">>) = Str("a")
    /\ grouped[1] = grouped[2]
    /\ At(grouped[1], <<"tags">>) = List(<<Tag("env", "b")>>)

\* C10: resolve(resolve(E, Ls), Ls) = resolve(E, Ls).
C10_Idempotent ==
    pc = "reresolved" => result2 = result

\* The second resolution of a resolved entry raises.
C10_Witness ==
    /\ pc = "reresolved"
    /\ result2 = TypeError
    /\ At(ui_variables, <<"tags">>) = List(<<Tag("env", "a")>>)
    /\ At(priority_configs[1], <<"tags">>) = List(<<Tag("env", "b")>>)
    /\ At(priority_configs[2], <<"tags">>) = List(<<Num(1)>>)

\* C11: merging a mapping A with an empty layer gives A, and a chain whose
\* layers are all absent or empty returns a value equal to the base entry.
C11_IdentityLaw ==
    (\A i \in 1..Len(priority_configs) : priority_configs[i] = EmptyDict)
    => /\ pc \in {"resolved", "chain_raised"}
          => (pc = "resolved" /\ result = ui_variables
              /\ \A n \in 1..Len(steps) : steps[n] = ui_variables)
       /\ pc = "grouped"
          => (grouped[1] = ui_variables /\ grouped[2] = ui_variables)

C11_Witness ==
    /\ pc = "resolved"
    /\ priority_configs = <<EmptyDict, EmptyDict>>
    /\ At(ui_variables, <<"tags">>) = List(<<Tag("env", "a")>>)
    /\ result = ui_variables

\* The value r comes from the values srcs found at the same path: its keys
\* are keys of a mapping among them, at every depth; its list elements are
\* elements of a list among them; a scalar is one of them.
RECURSIVE ComesFrom(_, _)
ComesFrom(r, srcs) ==
    IF IsDict(r)
    THEN \A k \in Keys(r) :
            /\ \E s \in srcs : HasKey(s, k)
            /\ ComesFrom(r.d[k], {s.d[k] : s \in {t \in srcs : HasKey(t, k)}})
    ELSE IF IsList(r)
    THEN \A i \in 1..Len(r.l) : \E s \in srcs : IsList(s) /\ r.l[i] \in Range(s.l)
    ELSE r \in srcs

\* The entry and the layers apply_priority_chain applies (the non-empty ones).
AppliedSources ==
    {ui_variables} \cup
    {priority_configs[i] : i \in {j \in 1..Len(priority_configs) : Truthy(priority_configs[j])}}

\* C23: every key of the final result, at every depth, is a key at the same
\* path of the entry or of an applied layer; every scalar leaf and every list
\* element of the result occurs at that path in the entry or in an applied
\* layer.
C23_NoSynthesizedContent ==
    pc = "resolved" => ComesFrom(result, AppliedSources)

\* A list assembled from the elements of a layer and of the entry.
C23_Witness ==
    /\ pc = "resolved"
    /\ At(ui_variables, <<"cfg">>) = List(<<Num(1)>>)
    /\ At(priority_configs[1], <<"cfg">>) = List(<<Tag("env", "a")>>)
    /\ At(priority_configs[2], <<"tags">>) = Str("a")
    /\ At(result, <<"cfg">>) = List(<<Tag("env", "a"), Num(1)>>)
    /\ At(result, <<"tags">>) = Str("a")

\* _detect_changes: "+key" for a key new_config adds, "~key" for a key whose
\* value differs, "-key" for a key of old_config that new_config lacks (the
\* records as a set; the code lists them in dict order).
_detect_changes(old_config, new_config) ==
    {"+" \o k : k \in Keys(new_config) \ Keys(old_config)}
    \cup {"~" \o k : k \in {j \in Keys(new_config) \cap Keys(old_config) :
                              old_config.d[j] # new_config.d[j]}}
    \cup {"-" \o k : k \in Keys(old_config) \ Keys(new_config)}

\* The records a removed key can give rise to.
RemovedRecords == {"-" \o k : k \in ChainKeys \cup {"spec"}}

\* The changes apply_priority_chain logs after layer i (none for a layer it skips).
LayerChanges(i) ==
    IF Truthy(priority_configs[i]) THEN _detect_changes(steps[i], steps[i + 1]) ELSE {}

\* C24: the change detection after each layer step of apply_priority_chain
\* reports no removed key; every record is an added or a changed key.
C24_NoRemovedRecord ==
    pc = "resolved" =>
        \A i \in 1..Len(priority_configs) :
            /\ LayerChanges(i) \cap RemovedRecords = {}
            /\ LayerChanges(i) \subseteq
                  {"+" \o k : k \in Keys(priority_configs[i])}
                  \cup {"~" \o k : k \in Keys(priority_configs[i])}

\* One layer adds a key, the next changes another.
C24_Witness ==
    /\ pc = "resolved"
    /\ Keys(ui_variables) = {"tags"}
    /\ LayerChanges(1) = {"+cfg"}
    /\ LayerChanges(2) = {"~tags"}

----------------------------------------------------------------------------
(* DefaultsProcessor: resolution of one resource entry *)

\* The layers in ascending priority: ProductDefaults, EnforcedDefaults,
\* CloudProjectDefaults, ResourceOverrides.
Layers == 1..4
LayerName == <<"p", "e", "c", "r">>

\* A layer file is absent, unparsable, or parses to a JSON document.
FileAbsent == [t |-> "file_absent"]
FileMalformed == [t |-> "file_malformed"]

\* FileLoader.load_json_file: None for no file, FileLoadError for a file
\* that does not parse, the parsed document otherwise.
FileLoadError == [t |-> "FileLoadError"]
load_json_file(file) ==
    IF file = FileAbsent THEN JNull
    ELSE IF file = FileMalformed THEN FileLoadError
    ELSE file

\* Mutant: the loader does not catch FileLoadError; what could be read of
\* the file is handed on as the layer's document.
load_defaults_keeps_malformed(file) ==
    LET defaults == load_json_file(file)
    IN  IF defaults = FileLoadError THEN Dict([f \in {"x"} |-> Str("?")])
        ELSE IF IsNone(defaults) THEN EmptyDict
        ELSE IF IsNum(defaults) THEN EmptyDict
        ELSE IF ~Truthy(defaults) THEN defaults
        ELSE IF IsDict(defaults) THEN defaults
        ELSE EmptyDict

\* ProductDefaultsLoader.load_defaults and the three OverrideManager.load_*:
\* {} for None and for any exception (the loader's, or len()/.items() of the
\* summary on a document that is no mapping); a falsy document passes the
\* summary untouched.
load_defaults(file) ==
    LET defaults == load_json_file(file)
    IN  IF defaults = FileLoadError THEN EmptyDict
        ELSE IF IsNone(defaults) THEN EmptyDict
        ELSE IF IsNum(defaults) THEN EmptyDict
        ELSE IF ~Truthy(defaults) THEN defaults
        ELSE IF IsDict(defaults) THEN defaults
        ELSE EmptyDict

\* What the loader logs for a file: "No ... found" (not_found), "Failed to
\* load ..." (error) or "Loaded ...: n keys" (loaded).
load_report(file) ==
    LET defaults == load_json_file(file)
    IN  IF defaults = FileLoadError THEN "error"
        ELSE IF IsNone(defaults) THEN "not_found"
        ELSE IF IsNum(defaults) THEN "error"
        ELSE IF ~Truthy(defaults) THEN "loaded"
        ELSE IF IsDict(defaults) THEN "loaded"
        ELSE "error"

\* dict.get
Get(d, k) == IF k \in Keys(d) THEN d.d[k] ELSE JNull

\* Mutant: the two upper layers are looked up without a cloud project too.
AttemptedWith_any_cloud_project(cp, i) ==
    CASE i = 1 -> Truthy(products_repo_path)
      [] OTHER -> Truthy(overrides_repo_path)

\* The layers whose lookup _process_single_entry performs for cloud project cp.
AttemptedWith(cp, i) ==
    CASE i = 1 -> Truthy(products_repo_path)
      [] i = 2 -> Truthy(overrides_repo_path)
      [] OTHER -> Truthy(overrides_repo_path) /\ Truthy(cp)

Attempted(i) == AttemptedWith(cloud_project, i)

\* to_applyto_apply: the truthy documents of the attempted lookups, in order.
CollectConfigsFor(cp, files) ==
    LET take(i) == AttemptedWith(cp, i) /\ Truthy(load_defaults(files[i]))
        idx == SelectSeq(<<1, 2, 3, 4>>, take)
    IN  [n \in 1..Len(idx) |-> load_defaults(files[idx[n]])]

CollectConfigs == CollectConfigsFor(cloud_project, layer_files)

AttributeError == [t |-> "AttributeError"]

\* Mutant: an entry that lacks a required field is resolved like any other.
_process_single_entry_no_guard(e, cp, files) ==
    IF ~IsDict(e)
    THEN [result |-> AttributeError, configs |-> <<>>, lookups |-> {},
          reports |-> <<>>, outcome |-> "raised"]
    ELSE LET configs == CollectConfigsFor(cp, files)
             merged == apply_priority_chain(e, configs)
             looked == {i \in 1..4 : AttemptedWith(cp, i)}
             logged == [i \in 1..4 |-> IF i \in looked THEN load_report(files[i])
                                       ELSE "none"]
         IN  [result |-> IF configs = <<>> \/ merged = TypeError THEN e ELSE merged,
              configs |-> configs, lookups |-> looked, reports |-> logged,
              outcome |-> IF configs = <<>> THEN "no_configs"
                          ELSE IF merged = TypeError THEN "fallback"
                          ELSE "applied"]

\* DefaultsProcessor._process_single_entry on entry e with cloud project cp
\* and the four files its lookups address: the value returned (or the
\* exception of entry.get on an entry that is no mapping), the layers
\* collected, the loaders called and what they logged.
_process_single_entry(e, cp, files) ==
    IF ~IsDict(e)
    THEN [result |-> AttributeError, configs |-> <<>>, lookups |-> {},
          reports |-> <<>>, outcome |-> "raised"]
    ELSE IF ~(Truthy(Get(e, "type")) /\ Truthy(Get(e, "resource_name"))
              /\ Truthy(Get(e, "env")))
    THEN [result |-> e, configs |-> <<>>, lookups |-> {},
          reports |-> <<>>, outcome |-> "skipped"]
    ELSE LET configs == CollectConfigsFor(cp, files)
             merged == apply_priority_chain(e, configs)
             looked == {i \in 1..4 : AttemptedWith(cp, i)}
             logged == [i \in 1..4 |-> IF i \in looked THEN load_report(files[i])
                                       ELSE "none"]
         IN  [result |-> IF configs = <<>> \/ merged = TypeError THEN e ELSE merged,
              configs |-> configs, lookups |-> looked, reports |-> logged,
              outcome |-> IF configs = <<>> THEN "no_configs"
                          ELSE IF merged = TypeError THEN "fallback"
                          ELSE "applied"]

\* The entries and layer files of the specification.
MkEntry(env, x, tags) ==
    LET ks == {"type", "resource_name", "env"}
                \cup (IF x = Absent THEN {} ELSE {"x"})
                \cup (IF tags = Absent THEN {} ELSE {"tags"})
    IN  Dict([f \in ks |->
                CASE f = "type" -> Str("s3")
                  [] f = "resource_name" -> Str("bucket")
                  [] f = "env" -> env
                  [] f = "x" -> x
                  [] OTHER -> tags])

LayerDocs(i) ==
    { Dict([f \in {"x"} |-> Str(LayerName[i])]),
      Dict([f \in {"y"} |-> Str(LayerName[i])]),
      Dict([f \in {"x"} |-> JNull]),
      Dict([f \in {"x", "tags"} |->
              IF f = "x" THEN Str(LayerName[i]) ELSE List(<<Tag("env", "a")>>)]),
      List(<<Num(1)>>), List(<<>>), JNull }

LayerFiles(i) == {FileAbsent, FileMalformed} \cup LayerDocs(i)

InitEntry ==
    /\ pc = "entry"
    /\ \E env \in {Str("dev"), Str("")}, x \in {Absent, Str("u")},
          tags \in {Absent, List(<<Num(1)>>)} :
          entry = MkEntry(env, x, tags)
    /\ cloud_project \in {JNull, Str("proj")}
    /\ products_repo_path \in {JNull, Str("/tmp/products")}
    /\ overrides_repo_path \in {JNull, Str("/tmp/overrides")}
    /\ \E f1 \in LayerFiles(1), f2 \in LayerFiles(2),
          f3 \in LayerFiles(3), f4 \in LayerFiles(4) :
          layer_files = <<f1, f2, f3, f4>>
    /\ to_applyto_apply = <<>>
    /\ lookups = {}
    /\ reports = <<>>
    /\ BatchIdle
    /\ PluginIdle
    /\ StoreIdle
    /\ result = Unset
    /\ lower_priority = Unset
    /\ higher_priority = Unset
    /\ ui_variables = Unset
    /\ priority_configs = <<>>
    /\ steps = <<>>
    /\ result2 = Unset
    /\ grouped = <<>>

\* DefaultsProcessor._process_single_entry
ProcessSingleEntry ==
    /\ pc = "entry"
    /\ LET r == _process_single_entry(entry, cloud_project, layer_files)
       IN  /\ result' = r.result
           /\ to_applyto_apply' = r.configs
           /\ lookups' = r.lookups
           /\ reports' = r.reports
           /\ pc' = r.outcome
    /\ UNCHANGED <<lower_priority, higher_priority, ui_variables, priority_configs,
                   steps, result2, grouped, entry, cloud_project,
                   products_repo_path, overrides_repo_path, layer_files, batch, plugin, store>>

NextEntry == ProcessSingleEntry

SpecEntry == InitEntry /\ [][NextEntry]_vars

----------------------------------------------------------------------------
(* Properties of _process_single_entry (SpecEntry) *)

NonNullScalar(v) == IsStr(v) \/ IsNum(v)

\* Layer i is found: its repository (and, for the two upper layers, the
\* cloud project) is there and its file holds a non-empty mapping.
Found(i) ==
    /\ (i = 1 => products_repo_path # JNull)
    /\ (i >= 2 => overrides_repo_path # JNull)
    /\ (i >= 3 => cloud_project # JNull)
    /\ IsDict(layer_files[i])
    /\ Keys(layer_files[i]) # {}

Complete ==
    \A k \in {"type", "resource_name", "env"} :
        k \in Keys(entry) /\ entry.d[k] \notin {JNull, Str("")}

\* The found layers that hold a non-null scalar under x.
DefiningX == {i \in Layers : Found(i) /\ NonNullScalar(Get(layer_files[i], "x"))}
Highest(S) == CHOOSE i \in S : \A j \in S : j <= i

\* C1: when the entry (with type, resource_name and env) and one or more
\* found layers hold non-null scalars under a key, the processed entry holds
\* the value of the highest-priority found layer defining it; the entry's
\* own value stays when no found layer defines the key.
C1_HighestFoundLayerWins ==
    (pc \notin {"entry"} /\ Complete /\ NonNullScalar(Get(entry, "x")))
    => Get(result, "x") = IF DefiningX = {} THEN Get(entry, "x")
                          ELSE Get(layer_files[Highest(DefiningX)], "x")

\* The same, for the entries whose chain returned.
C1_HighestFoundLayerWinsWhenApplied ==
    (pc \in {"applied", "no_configs"} /\ NonNullScalar(Get(entry, "x")))
    => Get(result, "x") = IF DefiningX = {} THEN Get(entry, "x")
                          ELSE Get(layer_files[Highest(DefiningX)], "x")

\* A found layer defines x, the chain raised on `tags`, and the processed
\* entry holds the entry's own x.
C1_Witness ==
    /\ pc = "fallback"
    /\ Complete
    /\ Get(entry, "x") = Str("u")
    /\ DefiningX # {}
    /\ Get(result, "x") = Str("u")

\* Both repositories are checked out (setup_repositories succeeded).
RepositoriesSetUp == Truthy(products_repo_path) /\ Truthy(overrides_repo_path)

Processed == pc \in {"no_configs", "applied", "fallback"}

\* C15: for a complete entry, ProductDefaults and EnforcedDefaults are looked
\* up; CloudProjectDefaults and ResourceOverrides are looked up if and only
\* if there is a cloud project; without one the result is the same whatever
\* the files of the two upper layers hold.
C15_LayerAvailability ==
    (Processed /\ RepositoriesSetUp) =>
        /\ {1, 2} \subseteq lookups
        /\ \A i \in {3, 4} : i \in lookups <=> Truthy(cloud_project)
        /\ ~Truthy(cloud_project) =>
              \A g3 \in LayerFiles(3), g4 \in LayerFiles(4) :
                  _process_single_entry(entry, cloud_project,
                      <<layer_files[1], layer_files[2], g3, g4>>).result = result

C15_Witness ==
    /\ pc = "applied"
    /\ RepositoriesSetUp
    /\ cloud_project = JNull
    /\ lookups = {1, 2}
    /\ layer_files[2] = Dict([f \in {"x"} |-> Str("e")])
    /\ layer_files[4] = Dict([f \in {"x"} |-> Str("r")])
    /\ Get(result, "x") = Str("e")

\* C18: with a malformed file at one layer's path the entry is still
\* processed, and the value returned, the layers collected and the outcome
\* are those obtained with that file absent and the other files unchanged.
C18_MalformedAsAbsent ==
    pc # "entry" =>
        \A i \in Layers :
            layer_files[i] = FileMalformed =>
                LET r == _process_single_entry(entry, cloud_project,
                             [layer_files EXCEPT ![i] = FileAbsent])
                IN  /\ pc # "raised"
                    /\ result = r.result
                    /\ to_applyto_apply = r.configs
                    /\ pc = r.outcome

C18_Witness ==
    /\ pc = "applied"
    /\ RepositoriesSetUp
    /\ Truthy(cloud_project)
    /\ layer_files[4] = FileMalformed
    /\ layer_files[3] = Dict([f \in {"x"} |-> Str("c")])
    /\ layer_files[1] = Dict([f \in {"y"} |-> Str("p")])
    /\ Get(result, "x") = Str("c")
    /\ Get(result, "y") = Str("p")

\* A file that parses to a JSON value which is no object.
NonObject(file) == IsNone(file) \/ IsStr(file) \/ IsNum(file) \/ IsList(file)

\* C19: a layer document that parses but is no object is reported as an
\* error for that layer, never as "not found", and contributes no value.
C19_NonObjectIsError ==
    Processed =>
        \A i \in lookups :
            NonObject(layer_files[i]) =>
                /\ reports[i] = "error"
                /\ result = _process_single_entry(entry, cloud_project,
                                [layer_files EXCEPT ![i] = FileAbsent]).result

\* The part of C19 the loaders keep: such a document contributes no value.
C19_NonObjectContributesNothing ==
    Processed =>
        \A i \in lookups :
            NonObject(layer_files[i]) =>
                result = _process_single_entry(entry, cloud_project,
                             [layer_files EXCEPT ![i] = FileAbsent]).result

\* The document `null` under EnforcedDefaults is logged as not found.
C19_Witness ==
    /\ Processed
    /\ 2 \in lookups
    /\ layer_files[2] = JNull
    /\ reports[2] = "not_found"

----------------------------------------------------------------------------
(* DefaultsProcessor: resolution of a batch of entries *)

\* The text an f-string puts for a value.
Text(v) == IF IsStr(v) THEN v.s ELSE "None"

project_name == "P"

FileAt(repo, path) == IF path \in DOMAIN repo THEN repo[path] ELSE FileAbsent

\* The files FileLoader.load_product_defaults, load_enforced_defaults,
\* load_cloud_project_defaults and load_resource_overrides address for
\* entry e and cloud project cp.
LayerFilesOf(e, cp) ==
    LET type == Text(Get(e, "type"))
        name == Text(Get(e, "resource_name"))
        env == Text(Get(e, "env"))
    IN  << FileAt(repo_files.products,
                  project_name \o "/" \o type \o "/" \o env \o "/default.json"),
           FileAt(repo_files.overrides, type \o "/eit-enforced-default.json"),
           FileAt(repo_files.overrides,
                  type \o "/" \o Text(cp) \o "/default.json"),
           FileAt(repo_files.overrides,
                  type \o "/" \o Text(cp) \o "/" \o name \o ".json") >>

\* GitConfiguration.extract_cloud_project_from_config({'entries': [first_entry]})
extract_cloud_project_from_config(first_entry) ==
    IF ~IsDict(first_entry) THEN JNull
    ELSE IF Truthy(Get(first_entry, "cloud_project")) THEN Get(first_entry, "cloud_project")
    ELSE IF "aws_account" \in Keys(first_entry) THEN first_entry.d["aws_account"]
    ELSE IF "cloud_account" \in Keys(first_entry) THEN first_entry.d["cloud_account"]
    ELSE IF "account_name" \in Keys(first_entry) THEN first_entry.d["account_name"]
    ELSE JNull

\* DefaultsProcessor._extract_cloud_project
_extract_cloud_project(entries) ==
    IF entries = <<>> THEN JNull
    ELSE IF Truthy(config_cloud_project) THEN config_cloud_project
    ELSE extract_cloud_project_from_config(entries[1])

\* Mutant: an entry whose processing raises is left out of the list.
AppendProcessed_drops_failed(processed, e, cp) ==
    LET r == _process_single_entry(e, cp, LayerFilesOf(e, cp))
    IN  IF r.outcome = "raised" THEN processed ELSE Append(processed, r.result)

\* The body of the loop of process_resource_entries: the processed entry is
\* appended, the original entry if _process_single_entry raised.
AppendProcessed(processed, e, cp) ==
    LET r == _process_single_entry(e, cp, LayerFilesOf(e, cp))
    IN  Append(processed, IF r.outcome = "raised" THEN e ELSE r.result)

\* DefaultsProcessor.process_resource_entries, as a function of its arguments.
process_resource_entries(entries, arg) ==
    IF entries = <<>> THEN <<>>
    ELSE IF ~is_git_configured THEN entries
    ELSE LET cp == IF Truthy(arg) THEN arg ELSE _extract_cloud_project(entries)
             acc[i \in 0..Len(entries)] ==
                 IF i = 0 THEN <<>> ELSE AppendProcessed(acc[i - 1], entries[i], cp)
         IN  acc[Len(entries)]

\* The batches of the specification.
MaxBatchLen == 2

With(d, k, v) == Dict([f \in Keys(d) \cup {k} |-> IF f = k THEN v ELSE d.d[f]])
Without(d, k) == Dict([f \in Keys(d) \ {k} |-> d.d[f]])

PlainEntry == MkEntry(Str("dev"), Str("u"), Absent)

BatchEntries ==
    { PlainEntry,
      With(PlainEntry, "cloud_project", Str("projA")),
      With(PlainEntry, "cloud_project", Str("projB")),
      With(PlainEntry, "aws_account", Str("projB")),
      With(With(PlainEntry, "aws_account", Str("")), "cloud_account", Str("projB")),
      With(PlainEntry, "account_name", Str("projA")),
      Without(With(PlainEntry, "cloud_project", Str("projA")), "env"),
      With(With(PlainEntry, "cloud_project", Str("projA")), "tags", List(<<Num(1)>>)),
      Str("oops") }

Batches == UNION {[1..n -> BatchEntries] : n \in 0..MaxBatchLen}

ProductsRepos ==
    { <<>>,
      [f \in {"P/s3/dev/default.json"} |->
          Dict([k \in {"x", "tags"} |->
                  IF k = "x" THEN Str("p") ELSE List(<<Tag("env", "a")>>)])] }

OverridesRepos ==
    { <<>>,
      [f \in {"s3/projA/default.json", "s3/projB/default.json", "s3/projB/bucket.json"} |->
          CASE f = "s3/projA/default.json" -> Dict([k \in {"x"} |-> Str("cA")])
            [] f = "s3/projB/default.json" -> Dict([k \in {"x"} |-> Str("cB")])
            [] OTHER -> Dict([k \in {"y"} |-> Str("rB")])] }

InitBatch ==
    /\ pc = "batch"
    /\ resource_entries \in Batches
    /\ cloud_project_arg \in {JNull, Str("projA")}
    /\ config_cloud_project \in {JNull, Str("projB")}
    /\ is_git_configured \in BOOLEAN
    /\ \E pr \in ProductsRepos, ov \in OverridesRepos :
          repo_files = [products |-> pr, overrides |-> ov]
    /\ products_repo_path = IF is_git_configured THEN Str("/tmp/products") ELSE JNull
    /\ overrides_repo_path = IF is_git_configured THEN Str("/tmp/overrides") ELSE JNull
    /\ entry_num = 0
    /\ processed_entries = <<>>
    /\ entry_lookups = <<>>
    /\ PluginIdle
    /\ StoreIdle
    /\ cloud_project = JNull
    /\ entry = Unset
    /\ layer_files = <<>>
    /\ to_applyto_apply = <<>>
    /\ lookups = {}
    /\ reports = <<>>
    /\ result = Unset
    /\ lower_priority = Unset
    /\ higher_priority = Unset
    /\ ui_variables = Unset
    /\ priority_configs = <<>>
    /\ steps = <<>>
    /\ result2 = Unset
    /\ grouped = <<>>

Unchanged_batch_inputs ==
    UNCHANGED <<lower_priority, higher_priority, ui_variables, priority_configs,
                steps, result2, grouped, entry, products_repo_path,
                overrides_repo_path, layer_files, to_applyto_apply, lookups,
                reports, resource_entries, cloud_project_arg,
                config_cloud_project, is_git_configured, repo_files, plugin, store>>

\* process_resource_entries up to the loop: the two early returns and the
\* cloud project of the batch.
ProcessResourceEntries ==
    /\ pc = "batch"
    /\ IF resource_entries = <<>>
       THEN /\ result' = <<>>
            /\ pc' = "done"
            /\ UNCHANGED cloud_project
       ELSE IF ~is_git_configured
       THEN /\ result' = resource_entries
            /\ pc' = "done"
            /\ UNCHANGED cloud_project
       ELSE /\ cloud_project' = IF Truthy(cloud_project_arg) THEN cloud_project_arg
                                ELSE _extract_cloud_project(resource_entries)
            /\ result' = Unset
            /\ pc' = "loop"
    /\ UNCHANGED <<entry_num, processed_entries, entry_lookups>>
    /\ Unchanged_batch_inputs

\* One iteration of the loop.
ProcessNextEntry ==
    /\ pc = "loop"
    /\ entry_num < Len(resource_entries)
    /\ LET e == resource_entries[entry_num + 1]
       IN  /\ processed_entries' = AppendProcessed(processed_entries, e, cloud_project)
           /\ entry_lookups' = Append(entry_lookups,
                  _process_single_entry(e, cloud_project,
                                        LayerFilesOf(e, cloud_project)).lookups)
    /\ entry_num' = entry_num + 1
    /\ UNCHANGED <<pc, result, cloud_project>>
    /\ Unchanged_batch_inputs

\* The loop is over: processed_entries is returned.
ReturnProcessedEntries ==
    /\ pc = "loop"
    /\ entry_num = Len(resource_entries)
    /\ result' = processed_entries
    /\ pc' = "done"
    /\ UNCHANGED <<entry_num, processed_entries, entry_lookups, cloud_project>>
    /\ Unchanged_batch_inputs

NextBatch == ProcessResourceEntries \/ ProcessNextEntry \/ ReturnProcessedEntries

SpecBatch == InitBatch /\ [][NextBatch]_vars

----------------------------------------------------------------------------
(* Properties of process_resource_entries (SpecBatch) *)

RequiredFields == {"type", "resource_name", "env"}

\* A mapping that lacks one of the required fields.
Incomplete(e) == IsDict(e) /\ \E k \in RequiredFields : k \notin Keys(e)

\* What _process_single_entry does for the entry at index i of the batch.
EntryRun(i) ==
    _process_single_entry(resource_entries[i], cloud_project,
                          LayerFilesOf(resource_entries[i], cloud_project))

BatchReturned == pc = "done" /\ is_git_configured /\ resource_entries # <<>>

\* C12: an entry that lacks type, resource_name or env comes back unchanged,
\* no loader is called for it and its processing raises nothing; the other
\* entries of the batch are resolved all the same.
C12_IncompletePassThrough ==
    /\ \A i \in 1..Len(processed_entries) :
          Incomplete(resource_entries[i]) =>
              /\ processed_entries[i] = resource_entries[i]
              /\ entry_lookups[i] = {}
              /\ EntryRun(i).outcome = "skipped"
    /\ BatchReturned =>
          /\ Len(result) = Len(resource_entries)
          /\ \A j \in 1..Len(resource_entries) :
                (IsDict(resource_entries[j]) /\ ~Incomplete(resource_entries[j]))
                => (result[j] = EntryRun(j).result /\ entry_lookups[j] # {})

C12_Witness ==
    /\ BatchReturned
    /\ Len(resource_entries) = 2
    /\ Incomplete(resource_entries[1])
    /\ result[1] = resource_entries[1]
    /\ entry_lookups[1] = {}
    /\ resource_entries[2] = PlainEntry
    /\ Get(result[2], "x") = Str("cA")

\* The explicitly supplied cloud project: the argument, else the configured one.
ExplicitCloudProject ==
    IF Truthy(cloud_project_arg) THEN cloud_project_arg
    ELSE IF Truthy(config_cloud_project) THEN config_cloud_project
    ELSE JNull

\* The cloud project an entry names itself: its cloud_project field, else the
\* first of the alternate fields that yields a value.
OwnCloudProject(e) ==
    IF Truthy(Get(e, "cloud_project")) THEN Get(e, "cloud_project")
    ELSE IF Truthy(Get(e, "aws_account")) THEN Get(e, "aws_account")
    ELSE IF Truthy(Get(e, "cloud_account")) THEN Get(e, "cloud_account")
    ELSE IF Truthy(Get(e, "account_name")) THEN Get(e, "account_name")
    ELSE JNull

\* An empty value is no cloud project.
Resolved(cp) == IF Truthy(cp) THEN cp ELSE JNull

\* C13: the cloud project used for the lookups of each complete entry is the
\* explicitly supplied one if there is one, else the one the entry itself
\* names, else none.
C13_CloudProjectOfEachEntry ==
    (pc \in {"loop", "done"} /\ is_git_configured /\ resource_entries # <<>>) =>
        \A i \in 1..Len(resource_entries) :
            (IsDict(resource_entries[i]) /\ ~Incomplete(resource_entries[i])) =>
                Resolved(cloud_project) =
                    IF ExplicitCloudProject # JNull THEN ExplicitCloudProject
                    ELSE OwnCloudProject(resource_entries[i])

\* The second entry names projB and is resolved with the first entry's projA.
C13_Witness ==
    /\ BatchReturned
    /\ ExplicitCloudProject = JNull
    /\ Len(resource_entries) = 2
    /\ resource_entries[1] = With(PlainEntry, "cloud_project", Str("projA"))
    /\ resource_entries[2] = With(PlainEntry, "cloud_project", Str("projB"))
    /\ cloud_project = Str("projA")
    /\ Get(result[2], "x") = Str("cA")

\* C14: the resolved value at index i is the same in every batch that agrees
\* on the entry at index i, on the cloud_project argument and on the layer
\* documents, whatever another entry of the batch holds.
C14_EntryIndependence ==
    BatchReturned =>
        \A i, j \in 1..Len(resource_entries) : \A other \in BatchEntries :
            i # j =>
                process_resource_entries([resource_entries EXCEPT ![j] = other],
                                         cloud_project_arg)[i] = result[i]

\* The second entry names no cloud project and is resolved with the first
\* entry's projA; after an entry without cloud project it is not.
C14_Witness ==
    /\ BatchReturned
    /\ ExplicitCloudProject = JNull
    /\ resource_entries = <<With(PlainEntry, "cloud_project", Str("projA")), PlainEntry>>
    /\ Get(result[2], "x") = Str("cA")
    /\ process_resource_entries(<<PlainEntry, PlainEntry>>, cloud_project_arg)[2]
         # result[2]

\* C16: process_resource_entries returns a sequence as long as its input in
\* which the element at index i is the resolution of, or is, the input entry
\* at index i: for an empty batch, without git integration, and otherwise,
\* where the list under construction holds one element per entry passed.
C16_BatchShape ==
    /\ pc = "done" =>
          /\ Len(result) = Len(resource_entries)
          /\ ~is_git_configured => result = resource_entries
          /\ \A i \in 1..Len(resource_entries) :
                \/ result[i] = resource_entries[i]
                \/ is_git_configured /\ result[i] = EntryRun(i).result
    /\ pc = "loop" =>
          /\ Len(processed_entries) = entry_num
          /\ entry_num <= Len(resource_entries)
          /\ \A i \in 1..Len(processed_entries) :
                \/ processed_entries[i] = resource_entries[i]
                \/ processed_entries[i] = EntryRun(i).result

C16_Witness ==
    /\ BatchReturned
    /\ cloud_project_arg = Str("projA")
    /\ resource_entries = <<Str("oops"), PlainEntry>>
    /\ Len(result) = 2
    /\ result[1] = Str("oops")
    /\ Get(result[2], "x") = Str("cA")

\* The entry at index i fails: its processing raises, or its merge fails and
\* _process_single_entry falls back to the original entry.
Failed(i) == EntryRun(i).outcome \in {"raised", "fallback"}

\* The batch without the entry at index i.
RemoveAt(entries, i) ==
    [n \in 1..(Len(entries) - 1) |-> IF n < i THEN entries[n] ELSE entries[n + 1]]

\* C17: when one entry fails, process_resource_entries returns, the output at
\* that index is the original entry, and every other entry is resolved as in
\* the batch without the failing entry.
C17_FailureIsolation ==
    BatchReturned =>
        \A i \in 1..Len(resource_entries) :
            Failed(i) =>
                /\ Len(result) = Len(resource_entries)
                /\ result[i] = resource_entries[i]
                /\ \A j \in 1..Len(resource_entries) :
                      j # i =>
                          result[j] =
                              process_resource_entries(RemoveAt(resource_entries, i),
                                                       cloud_project_arg)[IF j < i THEN j ELSE j - 1]

\* C17, the part that holds: the batch returns and the failing index holds the
\* original entry; the other entries are resolved with the batch's cloud project.
C17_FailedEntryKeptOriginal ==
    BatchReturned =>
        \A i \in 1..Len(resource_entries) :
            Failed(i) =>
                /\ Len(result) = Len(resource_entries)
                /\ result[i] = resource_entries[i]
                /\ \A j \in 1..Len(resource_entries) :
                      (j # i /\ ~Failed(j)) => result[j] = EntryRun(j).result

\* The first entry's merge fails; the second is resolved with the first
\* entry's projA, which it would not be in a batch of its own.
C17_Witness ==
    /\ BatchReturned
    /\ ExplicitCloudProject = JNull
    /\ Len(resource_entries) = 2
    /\ EntryRun(1).outcome = "fallback"
    /\ result[1] = resource_entries[1]
    /\ resource_entries[2] = PlainEntry
    /\ Get(result[2], "x") = Str("cA")
    /\ process_resource_entries(<<PlainEntry>>, cloud_project_arg)[1] # result[2]

----------------------------------------------------------------------------
(* EnhancedDronePlugin.run *)

\* Optional booleans of the configuration are "True", "False" or "None".
\* An environment variable that is unset or empty does not count as set.
ParseBool(value) == IF value \in {"true", "1", "yes", "on"} THEN "True" ELSE "False"

\* EnhancedConfigLoader._load_from_env, for a boolean setting: the key is in
\* config_data only when the environment variable has a value.
EnvBool(value) == IF value = "" THEN "None" ELSE ParseBool(value)

ConfigurationError == [t |-> "ConfigurationError"]

\* The texts PLUGIN_RESOURCE_CONFIG takes: unset, one entry, one entry that
\* names a cloud project, an entry that is not a mapping.
ResourceConfigTexts == {"", "entry", "entry_projA", "bad_entry"}

\* ConfigLoader._safe_json_parse of PLUGIN_RESOURCE_CONFIG; an unset variable
\* leaves PluginConfig's default, the empty dict.
_safe_json_parse(text) ==
    CASE text = "entry" ->
           Dict([k \in {"entries"} |-> List(<<PlainEntry>>)])
      [] text = "entry_projA" ->
           Dict([k \in {"entries"} |->
                   List(<<With(PlainEntry, "cloud_project", Str("projA"))>>)])
      [] text = "bad_entry" ->
           Dict([k \in {"entries"} |-> List(<<Str("oops")>>)])
      [] OTHER -> EmptyDict

\* EnhancedConfigLoader.load_config: ConfigLoader._create_config raises for an
\* unknown action (reported as ConfigurationError); the settings PluginConfig
\* does not declare are set from config_data.get, None when absent.
load_config(env) ==
    IF env.ACTION # "create" THEN ConfigurationError
    ELSE [action |-> env.ACTION,
          dry_run |-> env.DRY_RUN,
          retry_attempts |-> env.RETRY_ATTEMPTS,
          resource_config |-> _safe_json_parse(env.RESOURCE_CONFIG),
          credentials |-> env.credentials,
          enable_git_integration |-> EnvBool(env.ENABLE_GIT_INTEGRATION),
          skip_missing_defaults |-> EnvBool(env.SKIP_MISSING_DEFAULTS)]

\* The attributes load_configuration copies from config to enhanced_config.
CopiedAttributes == {"credentials", "enable_git_integration"}

\* EnhancedPluginConfig(): the dataclass defaults.
EnhancedPluginConfig ==
    [credentials |-> FALSE, enable_git_integration |-> "True",
     skip_missing_defaults |-> "True"]

\* The enhanced configuration load_configuration builds from config.
CopyToEnhanced(cfg) ==
    [a \in DOMAIN EnhancedPluginConfig |->
        IF a \in CopiedAttributes THEN cfg[a] ELSE EnhancedPluginConfig[a]]

\* EnhancedPluginConfig.is_git_configured
IsGitConfigured(ecfg) == ecfg.enable_git_integration = "True" /\ ecfg.credentials

\* `not getattr(cfg, 'skip_missing_defaults', True)`
NotSkipMissing(cfg) == cfg.skip_missing_defaults \in {"False", "None"}

\* DronePlugin.run: the exit code of each exception.
ExitCodeOf(exc) ==
    CASE exc = "ValidationError"    -> 2
      [] exc = "ConfigurationError" -> 3
      [] exc = "PluginError"        -> 1

\* CreateActionProcessor.process: the outputs it adds.
CreateOutputs == {"RESOURCE_OWNER", "DEPLOYMENT_NAME", "USER_DEFINED_DEPLOYMENT_NAME",
                  "item_map", "workspace_ids"}

\* EnhancedDronePlugin.finalize_outputs: the outputs it adds.
GitOutputs == {"gitIntegrationEnabled", "repositoriesSetup"}

\* DefaultsProcessor.setup_repositories: the repositories cloned, in order,
\* up to the first that cannot be cloned.
ClonedOf(remote) ==
    IF "products" \notin remote THEN {}
    ELSE IF "overrides" \notin remote THEN {"products"}
    ELSE {"products", "overrides"}

\* A mutation: the defaults processor is kept when setup failed.
ProcessorAfterSetup_kept(success) == "DefaultsProcessor"

\* initialize_git_integration: self.defaults_processor once setup returned
\* and no ConfigurationError is raised.
ProcessorAfterSetup(success) == IF success THEN "DefaultsProcessor" ELSE "None"

\* A mutation: the loop gives up one failure later.
AttemptsExhausted_one_more(count, attempts) == count > attempts + 1

\* execute_action: `if retry_count > self.config.retry_attempts: raise`
AttemptsExhausted(count, attempts) == count > attempts

\* The files of the two remote repositories.
RemoteFiles ==
    [products |->
        [f \in {"P/s3/dev/default.json"} |->
            Dict([k \in {"x", "tags"} |->
                    IF k = "x" THEN Str("p") ELSE List(<<Tag("env", "a")>>)])],
     overrides |->
        [f \in {"s3/projA/default.json"} |-> Dict([k \in {"x"} |-> Str("cA")])]]

\* resource_config.get('entries', [])
EntriesOf(resource_config) ==
    IF HasKey(resource_config, "entries") THEN resource_config.d["entries"].l ELSE <<>>

\* EnhancedCreateActionProcessor.process up to super().process(): the entries
\* after the defaults processor, if there is one, has processed them.
EntriesAfterDefaults(resource_config, dp) ==
    IF dp = "DefaultsProcessor"
    THEN process_resource_entries(EntriesOf(resource_config), JNull)
    ELSE EntriesOf(resource_config)

\* CreateActionProcessor._process_resource_config raises PluginError for an
\* entry that is not a mapping (debug_mode is off).
ProcessRaises(entries) == \E i \in 1..Len(entries) : ~IsDict(entries[i])

MaxTransientFailures == 2

MaxRetryAttempts == 1

InitRun ==
    /\ StoreIdle
    /\ pc = "load_configuration"
    /\ \E action \in {"create", "bogus"},
          dry \in BOOLEAN,
          retries \in 0..MaxRetryAttempts,
          rc \in ResourceConfigTexts,
          failing \in 0..MaxTransientFailures,
          cred \in BOOLEAN,
          enable \in {"", "true", "false"},
          skip \in {"", "true", "false"},
          remote \in {{}, {"products"}, {"products", "overrides"}} :
          environ = [ACTION |-> action, DRY_RUN |-> dry, RETRY_ATTEMPTS |-> retries,
                     RESOURCE_CONFIG |-> rc, credentials |-> cred,
                     ENABLE_GIT_INTEGRATION |-> enable,
                     SKIP_MISSING_DEFAULTS |-> skip, remote |-> remote,
                     transient_failures |-> failing]
    /\ config = Unset
    /\ enhanced_config = Unset
    /\ defaults_processor = "None"
    /\ cloned = {}
    /\ retry_count = 0
    /\ process_calls = 0
    /\ outputs = {}
    /\ exported = {}
    /\ stages = <<>>
    /\ body = "enhanced"
    /\ exit_code = NotReturned
    /\ ProcessorIdle
    /\ resource_entries = <<>>
    /\ cloud_project_arg = JNull
    /\ config_cloud_project = JNull
    /\ is_git_configured = FALSE
    /\ repo_files = RemoteFiles
    /\ entry_num = 0
    /\ processed_entries = <<>>
    /\ entry_lookups = <<>>
    /\ result = Unset
    /\ lower_priority = Unset
    /\ higher_priority = Unset
    /\ ui_variables = Unset
    /\ priority_configs = <<>>
    /\ steps = <<>>
    /\ result2 = Unset
    /\ grouped = <<>>

Unchanged_by_run ==
    UNCHANGED <<lower_priority, higher_priority, ui_variables, priority_configs,
                steps, result, result2, grouped, entry, cloud_project, layer_files,
                to_applyto_apply, lookups, reports, resource_entries,
                cloud_project_arg, config_cloud_project, repo_files, entry_num,
                processed_entries, entry_lookups, environ, store>>

\* An exception leaves the stage: EnhancedDronePlugin.run catches it and
\* calls super().run(), which starts over; DronePlugin.run returns its code.
Raise(exc) ==
    IF body = "enhanced"
    THEN /\ body' = "base"
         /\ pc' = "load_configuration"
         /\ exit_code' = exit_code
    ELSE /\ body' = body
         /\ pc' = "returned"
         /\ exit_code' = ExitCodeOf(exc)

Proceed(next) ==
    /\ body' = body
    /\ pc' = next
    /\ exit_code' = exit_code

\* EnhancedDronePlugin.load_configuration
LoadConfiguration ==
    /\ pc = "load_configuration"
    /\ stages' = Append(stages, "load_configuration")
    /\ LET loaded == load_config(environ)
       IN  IF loaded = ConfigurationError
           THEN /\ Raise("ConfigurationError")
                /\ UNCHANGED <<config, enhanced_config, is_git_configured>>
           ELSE /\ config' = loaded
                /\ enhanced_config' = CopyToEnhanced(loaded)
                /\ is_git_configured' = IsGitConfigured(CopyToEnhanced(loaded))
                /\ Proceed(IF body = "enhanced" THEN "initialize_git_integration"
                           ELSE "initialize_components")
    /\ UNCHANGED <<defaults_processor, cloned, retry_count, process_calls, outputs,
                   exported, products_repo_path, overrides_repo_path>>
    /\ Unchanged_by_run

\* EnhancedDronePlugin.initialize_git_integration, with
\* DefaultsProcessor.setup_repositories
InitializeGitIntegration ==
    /\ pc = "initialize_git_integration"
    /\ stages' = Append(stages, "initialize_git_integration")
    /\ IF ~IsGitConfigured(enhanced_config)
       THEN /\ UNCHANGED <<defaults_processor, cloned, products_repo_path,
                           overrides_repo_path>>
            /\ Proceed("initialize_components")
       ELSE /\ cloned' = cloned \cup ClonedOf(environ.remote)
            /\ products_repo_path' =
                  IF "products" \in ClonedOf(environ.remote)
                  THEN Str("/tmp/products") ELSE JNull
            /\ overrides_repo_path' =
                  IF "overrides" \in ClonedOf(environ.remote)
                  THEN Str("/tmp/overrides") ELSE JNull
            /\ LET success == ClonedOf(environ.remote) = {"products", "overrides"}
               IN  IF ~success /\ NotSkipMissing(enhanced_config)
                   THEN /\ defaults_processor' = "DefaultsProcessor"
                        /\ Raise("ConfigurationError")
                   ELSE /\ defaults_processor' = ProcessorAfterSetup(success)
                        /\ Proceed("initialize_components")
    /\ UNCHANGED <<config, enhanced_config, retry_count, process_calls, outputs,
                   exported, is_git_configured>>
    /\ Unchanged_by_run

\* EnhancedDronePlugin.initialize_components: a new OutputManager and the
\* action processor of the action.
InitializeComponents ==
    /\ pc = "initialize_components"
    /\ stages' = Append(stages, "initialize_components")
    /\ outputs' = {}
    /\ Proceed("validate_configuration")
    /\ UNCHANGED <<config, enhanced_config, defaults_processor, cloned, retry_count,
                   process_calls, exported, products_repo_path,
                   overrides_repo_path, is_git_configured>>
    /\ Unchanged_by_run

\* DronePlugin.validate_configuration; the inputs of the create action
\* (triggered_by_email, execution_id) are supplied.
ValidateConfiguration ==
    /\ pc = "validate_configuration"
    /\ stages' = Append(stages, "validate_configuration")
    /\ IF ~Truthy(config.resource_config)
       THEN Raise("ValidationError")
       ELSE Proceed("execute_action")
    /\ UNCHANGED <<config, enhanced_config, defaults_processor, cloned, retry_count,
                   process_calls, outputs, exported, products_repo_path,
                   overrides_repo_path, is_git_configured>>
    /\ Unchanged_by_run

\* DronePlugin.execute_action up to the retry loop.
ExecuteAction ==
    /\ pc = "execute_action"
    /\ stages' = Append(stages, "execute_action")
    /\ retry_count' = 0
    /\ IF config.dry_run
       THEN Proceed("finalize_outputs")
       ELSE Proceed("process")
    /\ UNCHANGED <<config, enhanced_config, defaults_processor, cloned,
                   process_calls, outputs, exported, products_repo_path,
                   overrides_repo_path, is_git_configured>>
    /\ Unchanged_by_run

\* One iteration of the retry loop. EnhancedCreateActionProcessor.process
\* replaces the entries of the configuration by the processed ones, then
\* CreateActionProcessor.process raises PluginError before any output is
\* added (an entry that is not a mapping, or one of the first
\* transient_failures calls), or adds its outputs.
Process ==
    /\ pc = "process"
    /\ retry_count <= config.retry_attempts
    /\ process_calls' = process_calls + 1
    /\ LET entries == EntriesAfterDefaults(config.resource_config, defaults_processor)
           raises == ProcessRaises(entries) \/ process_calls < environ.transient_failures
       IN  /\ config' = IF defaults_processor = "DefaultsProcessor"
                        THEN [config EXCEPT !.resource_config =
                                 With(config.resource_config, "entries", List(entries))]
                        ELSE config
           /\ IF ~raises
              THEN /\ outputs' = outputs \cup CreateOutputs
                   /\ exported' = exported \cup CreateOutputs
                   /\ retry_count' = retry_count
                   /\ stages' = Append(stages, "process")
                   /\ Proceed("finalize_outputs")
              ELSE /\ UNCHANGED <<outputs, exported>>
                   /\ retry_count' = retry_count + 1
                   /\ stages' = Append(stages, "process_raised")
                   /\ IF AttemptsExhausted(retry_count + 1, config.retry_attempts)
                      THEN Raise("PluginError")
                      ELSE Proceed("process")
    /\ UNCHANGED <<enhanced_config, defaults_processor, cloned, products_repo_path,
                   overrides_repo_path, is_git_configured>>
    /\ Unchanged_by_run

\* EnhancedDronePlugin.finalize_outputs, and the return of run.
FinalizeOutputs ==
    /\ pc = "finalize_outputs"
    /\ stages' = Append(stages, "finalize_outputs")
    /\ IF defaults_processor = "DefaultsProcessor"
       THEN /\ outputs' = outputs \cup GitOutputs
            /\ exported' = exported \cup GitOutputs
            /\ cloned' = {}
       ELSE UNCHANGED <<outputs, exported, cloned>>
    /\ body' = body
    /\ pc' = "returned"
    /\ exit_code' = 0
    /\ UNCHANGED <<config, enhanced_config, defaults_processor, retry_count,
                   process_calls, products_repo_path, overrides_repo_path,
                   is_git_configured>>
    /\ Unchanged_by_run

NextRun ==
    \/ LoadConfiguration
    \/ InitializeGitIntegration
    \/ InitializeComponents
    \/ ValidateConfiguration
    \/ ExecuteAction
    \/ Process
    \/ FinalizeOutputs

SpecRun == InitRun /\ [][NextRun]_vars

\* One call of execute_action, from whichever run body, with the processor of
\* the action working on the entries as configured.
InitExecute ==
    /\ StoreIdle
    /\ pc = "execute_action"
    /\ \E dry \in BOOLEAN,
          retries \in 0..MaxRetryAttempts,
          rc \in ResourceConfigTexts \ {""},
          failing \in 0..MaxTransientFailures,
          skip \in {"", "false"} :
          /\ environ = [ACTION |-> "create", DRY_RUN |-> dry,
                        RETRY_ATTEMPTS |-> retries, RESOURCE_CONFIG |-> rc,
                        credentials |-> TRUE, ENABLE_GIT_INTEGRATION |-> "true",
                        SKIP_MISSING_DEFAULTS |-> skip,
                        remote |-> {},
                        transient_failures |-> failing]
          /\ config = load_config(environ)
          /\ enhanced_config = CopyToEnhanced(load_config(environ))
    /\ is_git_configured = FALSE
    /\ defaults_processor = "None"
    /\ products_repo_path = JNull
    /\ overrides_repo_path = JNull
    /\ cloned = {}
    /\ body \in {"enhanced", "base"}
    /\ stages = <<>>
    /\ retry_count = 0
    /\ process_calls = 0
    /\ outputs = {}
    /\ exported = {}
    /\ exit_code = NotReturned
    /\ entry = Unset
    /\ cloud_project = JNull
    /\ layer_files = <<>>
    /\ to_applyto_apply = <<>>
    /\ lookups = {}
    /\ reports = <<>>
    /\ resource_entries = <<>>
    /\ cloud_project_arg = JNull
    /\ config_cloud_project = JNull
    /\ repo_files = RemoteFiles
    /\ entry_num = 0
    /\ processed_entries = <<>>
    /\ entry_lookups = <<>>
    /\ result = Unset
    /\ lower_priority = Unset
    /\ higher_priority = Unset
    /\ ui_variables = Unset
    /\ priority_configs = <<>>
    /\ steps = <<>>
    /\ result2 = Unset
    /\ grouped = <<>>

NextExecute == ExecuteAction \/ Process

\* execute_action is sequential code: it keeps taking steps until it is over.
SpecExecute == InitExecute /\ [][NextExecute]_vars /\ WF_vars(NextExecute)

\* Repository setup was attempted and failed: git integration is configured
\* and one of the two repositories cannot be cloned.
SetupFailed ==
    /\ \E n \in 1..Len(stages) : stages[n] = "initialize_git_integration"
    /\ IsGitConfigured(enhanced_config)
    /\ ClonedOf(environ.remote) # {"products", "overrides"}

\* The run is configured not to tolerate missing defaults.
Intolerant == environ.SKIP_MISSING_DEFAULTS = "false"

\* C20: when repository setup fails and skip_missing_defaults is false, the
\* run aborts: the action processor is never executed, no output is emitted
\* and run returns a non-zero exit code.
C20_IntolerantSetupFailureAborts ==
    (SetupFailed /\ Intolerant) =>
        /\ process_calls = 0
        /\ outputs = {}
        /\ exported = {}
        /\ pc = "returned" => exit_code # 0

\* Setup failed under the intolerant policy, and the run executed the action,
\* emitted its outputs and returned 0.
C20_Witness ==
    /\ pc = "returned"
    /\ SetupFailed
    /\ Intolerant
    /\ config.skip_missing_defaults = "False"
    /\ enhanced_config.skip_missing_defaults = "True"
    /\ process_calls = 1
    /\ outputs = CreateOutputs
    /\ exit_code = 0

\* The run is configured to tolerate missing defaults (the default).
Tolerant == environ.SKIP_MISSING_DEFAULTS \in {"", "true"}

\* The run never set up git integration: it is not configured.
WithoutGit ==
    /\ pc \notin {"load_configuration", "initialize_git_integration"}
    /\ config # Unset
    /\ ~IsGitConfigured(enhanced_config)

\* The exit code and the outputs of a returned run as functions of the inputs
\* that do not concern git integration.
PlainExitCode ==
    LET rc == _safe_json_parse(environ.RESOURCE_CONFIG)
        n == environ.RETRY_ATTEMPTS + 1
    IN  IF ~Truthy(rc) THEN 2
        ELSE IF environ.DRY_RUN THEN 0
        ELSE IF ProcessRaises(EntriesOf(rc)) THEN 1
        ELSE IF environ.transient_failures >= 2 * n THEN 1
        ELSE 0

PlainOutputs ==
    IF PlainExitCode = 0 /\ ~environ.DRY_RUN THEN CreateOutputs ELSE {}

\* C21: when repository setup fails under the tolerant policy the run goes on
\* without defaults processor: the entries the action processor works on are
\* the entries supplied, and the run returns the exit code and the outputs
\* of a run without git integration.
C21_TolerantSetupFailureDegrades ==
    /\ (SetupFailed /\ Tolerant) =>
          /\ pc # "initialize_git_integration" => defaults_processor = "None"
          /\ config.resource_config = _safe_json_parse(environ.RESOURCE_CONFIG)
          /\ outputs \cap GitOutputs = {}
    /\ (pc = "returned" /\ (WithoutGit \/ (SetupFailed /\ Tolerant))) =>
          /\ exit_code = PlainExitCode
          /\ outputs = PlainOutputs

\* The products repository was cloned, the overrides repository was not; the
\* entry reached the action processor as supplied and the run returned 0.
C21_Witness ==
    /\ pc = "returned"
    /\ SetupFailed
    /\ environ.SKIP_MISSING_DEFAULTS = "true"
    /\ cloned = {"products"}
    /\ process_calls = 1
    /\ EntriesOf(config.resource_config) = <<PlainEntry>>
    /\ outputs = CreateOutputs
    /\ exit_code = 0

\* C26: after load_configuration, when no environment variable sets
\* enable_git_integration the enhanced configuration holds the default, True;
\* so git integration is configured whenever username and token are supplied
\* and the flag is not set to false.
C26_DefaultsSurviveLoading ==
    enhanced_config # Unset =>
        /\ environ.ENABLE_GIT_INTEGRATION = ""
              => enhanced_config.enable_git_integration
                    = EnhancedPluginConfig.enable_git_integration
        /\ (environ.credentials /\ environ.ENABLE_GIT_INTEGRATION # "false")
              => IsGitConfigured(enhanced_config)

\* Username and token are supplied and the flag is unset: the enhanced
\* configuration holds None for it and the run went by without git integration.
C26_Witness ==
    /\ pc = "returned"
    /\ environ.credentials
    /\ environ.ENABLE_GIT_INTEGRATION = ""
    /\ environ.remote = {"products", "overrides"}
    /\ exit_code = 0
    /\ enhanced_config.enable_git_integration = "None"
    /\ ~IsGitConfigured(enhanced_config)
    /\ defaults_processor = "None"
    /\ cloned = {}

\* The records of calls of action_processor.process in the log of stages.
IsCall(stage) == stage \in {"process", "process_raised"}

\* The position of the last call made by the execute_action logged at i.
LastCallOf(i) ==
    CHOOSE j \in i..Len(stages) :
        /\ \A k \in (i + 1)..j : IsCall(stages[k])
        /\ j = Len(stages) \/ ~IsCall(stages[j + 1])

\* The execute_action logged at i is over.
Left(i) == LastCallOf(i) < Len(stages) \/ pc \notin {"execute_action", "process"}

\* The calls of every execute_action of the run: at most retry_attempts + 1,
\* none in a dry run, none after one that succeeded; when the call is over
\* without a success, all retry_attempts + 1 calls were made and the failure
\* left execute_action (finalize_outputs does not follow).
BoundedAttempts ==
    \A i \in 1..Len(stages) :
        stages[i] = "execute_action" =>
            LET last == LastCallOf(i)
                calls == last - i
            IN  /\ calls <= config.retry_attempts + 1
                /\ config.dry_run => calls = 0
                /\ \A k \in (i + 1)..(last - 1) : stages[k] = "process_raised"
                /\ (Left(i) /\ ~config.dry_run) =>
                      IF stages[last] = "process"
                      THEN IF last < Len(stages)
                           THEN stages[last + 1] = "finalize_outputs"
                           ELSE pc = "finalize_outputs"
                      ELSE /\ calls = config.retry_attempts + 1
                           /\ IF last < Len(stages)
                              THEN stages[last + 1] = "load_configuration"
                              ELSE pc = "load_configuration"
                                   \/ (pc = "returned" /\ exit_code = ExitCodeOf("PluginError"))

\* C27: execute_action calls process at most retry_attempts + 1 times, stops
\* at the first call that succeeds, propagates the failure when every call
\* failed, calls it zero times in a dry run, and always terminates.
C27_BoundedRetry ==
    /\ []BoundedAttempts
    /\ (pc = "execute_action") ~> (pc \notin {"execute_action", "process"})

\* The first call failed, the second succeeded and no third was made.
C27_Witness ==
    /\ pc = "finalize_outputs"
    /\ config.retry_attempts = 1
    /\ environ.transient_failures = 1
    /\ Len(stages) >= 3
    /\ SubSeq(stages, Len(stages) - 2, Len(stages))
          = <<"execute_action", "process_raised", "process">>

\* The stages of the pipeline of one run.
PipelineStages ==
    {"load_configuration", "initialize_components", "validate_configuration",
     "execute_action", "finalize_outputs"}

\* How often the stage was entered so far.
Occurrences(stage) == Cardinality({i \in 1..Len(stages) : stages[i] = stage})

\* A stage of EnhancedDronePlugin.run raised: its handler took over.
StageFailed == body = "base"

\* C28: in one call of EnhancedDronePlugin.run every pipeline stage is entered
\* at most once, process is called at most retry_attempts + 1 times in total,
\* and a run in which a stage failed returns a non-zero exit code.
C28_SinglePassPerRun ==
    /\ \A stage \in PipelineStages : Occurrences(stage) <= 1
    /\ process_calls <= environ.RETRY_ATTEMPTS + 1
    /\ (pc = "returned" /\ StageFailed) => exit_code # 0

\* Every call of process failed on a malformed entry with one retry allowed:
\* the handler ran the pipeline again and process was called four times.
C28_Witness ==
    /\ pc = "returned"
    /\ environ.RESOURCE_CONFIG = "bad_entry"
    /\ environ.RETRY_ATTEMPTS = 1
    /\ StageFailed
    /\ Occurrences("execute_action") = 2
    /\ process_calls = 4
    /\ exit_code = ExitCodeOf("PluginError")

\* The run was configured as a dry run.
DryRun == config # Unset /\ config.dry_run

\* C29: in a dry run no output variable is added: OutputManager.outputs stays
\* empty and add_output sets no variable of the process environment.
C29_DryRunAddsNoOutput == DryRun => (outputs = {} /\ exported = {})

\* A dry run with both repositories set up returned: finalize_outputs added
\* the two git statistics and exported them.
C29_Witness ==
    /\ pc = "returned"
    /\ DryRun
    /\ exit_code = 0
    /\ process_calls = 0
    /\ defaults_processor = "DefaultsProcessor"
    /\ outputs = GitOutputs
    /\ exported = GitOutputs

\* The layer repositories the run cloned so far.
EverCloned ==
    IF \E i \in 1..Len(stages) : stages[i] = "initialize_git_integration"
    THEN IF is_git_configured THEN ClonedOf(environ.remote) ELSE {}
    ELSE {}

\* C30: whenever the run returns after cloning at least one layer repository,
\* no cloned directory is left, on failure paths as on success.
C30_ClonedRepositoriesCleanedUp ==
    (pc = "returned" /\ EverCloned # {}) => cloned = {}

\* Both repositories were cloned, every call of process failed, and the run
\* returned the failure with both directories still in the work directory.
C30_Witness ==
    /\ pc = "returned"
    /\ EverCloned = {"products", "overrides"}
    /\ environ.RESOURCE_CONFIG = "bad_entry"
    /\ exit_code = ExitCodeOf("PluginError")
    /\ cloned = {"products", "overrides"}

----------------------------------------------------------------------------
(* Python objects: identity, deepcopy and writes in place *)

\* A reference to the dict or list at address a of the object store.  None,
\* strings and numbers are immutable and stand for themselves.
Ref(a) == [t |-> "ref", a |-> a]
IsRef(v) == v.t = "ref"

RECURSIVE Deref(_, _)
\* The value a (possibly nested) reference stands for in store h.
Deref(h, v) ==
    IF ~IsRef(v) THEN v
    ELSE LET o == h[v.a]
         IN  IF IsList(o)
             THEN List([i \in 1..Len(o.l) |-> Deref(h, o.l[i])])
             ELSE Dict([k \in DOMAIN o.d |-> Deref(h, o.d[k])])

RECURSIVE Reach(_, _)
\* The addresses of the objects reachable from v.
Reach(h, v) ==
    IF ~IsRef(v) THEN {}
    ELSE LET o == h[v.a]
         IN  {v.a} \cup
             (IF IsList(o)
              THEN UNION {Reach(h, o.l[i]) : i \in 1..Len(o.l)}
              ELSE UNION {Reach(h, o.d[k]) : k \in DOMAIN o.d})

RECURSIVE SeqOf(_)
\* The elements of a finite set in some fixed order (dict iteration order).
SeqOf(S) ==
    IF S = {} THEN <<>>
    ELSE LET x == CHOOSE y \in S : TRUE IN <<x>> \o SeqOf(S \ {x})

RECURSIVE Alloc(_, _)
RECURSIVE AllocAll(_, _)
\* New objects for the values of q, one after the other.
AllocAll(h, q) ==
    IF Len(q) = 0 THEN [h |-> h, q |-> <<>>]
    ELSE LET first == Alloc(h, q[1])
             rest == AllocAll(first.h, [i \in 1..(Len(q) - 1) |-> q[i + 1]])
         IN  [h |-> rest.h, q |-> <<first.v>> \o rest.q]

\* A new object tree for value v (json.load, a dict or list display): the
\* store extended and the reference to the new object.
Alloc(h, v) ==
    IF IsScalar(v) THEN [h |-> h, v |-> v]
    ELSE IF IsList(v)
    THEN LET r == AllocAll(h, v.l)
         IN  [h |-> Append(r.h, List(r.q)), v |-> Ref(Len(r.h) + 1)]
    ELSE LET ks == SeqOf(Keys(v))
             r == AllocAll(h, [i \in 1..Len(ks) |-> v.d[ks[i]]])
             at(k) == CHOOSE i \in 1..Len(ks) : ks[i] = k
         IN  [h |-> Append(r.h, Dict([k \in Keys(v) |-> r.q[at(k)]])),
              v |-> Ref(Len(r.h) + 1)]

\* Mutant: deepcopy hands back the object it was given.
deepcopy_same_object(h, v) == [h |-> h, v |-> v]

\* copy.deepcopy: a new object tree with the value of v; nothing of it is
\* shared with v.
deepcopy(h, v) == Alloc(h, Deref(h, v))

\* dict.copy: a new dict with the same items; the values are shared.
ShallowCopy(h, v) == [h |-> Append(h, h[v.a]), v |-> Ref(Len(h) + 1)]

\* result[key] = value
SetItem(h, ref, key, value) ==
    [h EXCEPT ![ref.a] =
        Dict([k \in DOMAIN h[ref.a].d \cup {key} |->
                IF k = key THEN value ELSE h[ref.a].d[k]])]

\* result.append(item)
ListAppend(h, ref, item) == [h EXCEPT ![ref.a] = List(Append(h[ref.a].l, item))]

\* The type the value has: that of the object for a reference.
KindOf(h, v) == IF IsRef(v) THEN h[v.a].t ELSE v.t

RECURSIVE AppendMissing(_, _, _)
\* The loop of the plain branch of _merge_lists: every lower item that is
\* not `in result` is appended to result, the item itself and no copy of it.
AppendMissing(h, res, items) ==
    IF Len(items) = 0 THEN [h |-> h, v |-> res]
    ELSE LET item == items[1]
             present == \E i \in 1..Len(h[res.a].l) :
                            Deref(h, h[res.a].l[i]) = Deref(h, item)
         IN  AppendMissing(IF present THEN h ELSE ListAppend(h, res, item), res,
                           [i \in 1..(Len(items) - 1) |-> items[i + 1]])

RECURSIVE AppendUnmatched(_, _, _, _)
\* The loop of _merge_tag_lists: a deep copy of every lower tag that has a
\* key which no higher tag has is appended to result.
AppendUnmatched(h, res, items, higher_tag_keys) ==
    IF Len(items) = 0 THEN [h |-> h, v |-> res]
    ELSE LET tag == Deref(h, items[1])
             rest == [i \in 1..(Len(items) - 1) |-> items[i + 1]]
         IN  IF InKey(tag) = "yes" /\ tag.d["key"] \notin higher_tag_keys
             THEN LET c == deepcopy(h, items[1])
                  IN  AppendUnmatched(ListAppend(c.h, res, c.v), res, rest,
                                      higher_tag_keys)
             ELSE AppendUnmatched(h, res, rest, higher_tag_keys)

\* _merge_tag_lists on objects (calls that return).
_merge_tag_lists_at(h, lower_tags, higher_tags) ==
    LET hi == Deref(h, higher_tags).l
        higher_tag_keys == {hi[i].d["key"] : i \in {j \in 1..Len(hi) : HasKey(hi[j], "key")}}
        c == deepcopy(h, higher_tags)
    IN  AppendUnmatched(c.h, c.v, h[lower_tags.a].l, higher_tag_keys)

\* _merge_lists on objects.
_merge_lists_at(h, lower_list, higher_list, key) ==
    IF key \in TagKeyNames /\ _is_tag_list(Deref(h, higher_list))
    THEN _merge_tag_lists_at(h, lower_list, higher_list)
    ELSE LET c == deepcopy(h, higher_list)
         IN  AppendMissing(c.h, c.v, h[lower_list.a].l)

RECURSIVE _merge_values_at(_, _, _, _)
RECURSIVE UpdateItems(_, _, _, _, _)

\* _merge_dictionaries on objects.
_merge_dictionaries_at(h, lower_dict, higher_dict, key) ==
    LET c == deepcopy(h, lower_dict)
    IN  UpdateItems(c.h, c.v, higher_dict, SeqOf(DOMAIN h[higher_dict.a].d),
                    key \o ".")

\* _merge_values on objects: higher_value and lower_value are handed back as
\* they are, without a copy.
_merge_values_at(h, lower_value, higher_value, key) ==
    IF IsNone(higher_value) THEN [h |-> h, v |-> lower_value]
    ELSE IF IsNone(lower_value) THEN [h |-> h, v |-> higher_value]
    ELSE IF KindOf(h, lower_value) = "list" /\ KindOf(h, higher_value) = "list"
         THEN _merge_lists_at(h, lower_value, higher_value, key)
    ELSE IF KindOf(h, lower_value) = "dict" /\ KindOf(h, higher_value) = "dict"
         THEN _merge_dictionaries_at(h, lower_value, higher_value, key)
    ELSE [h |-> h, v |-> higher_value]

\* The loop over higher.items() of merge_variables and _merge_dictionaries:
\* result[key] is set to a deep copy of a new value, or to the merged value.
UpdateItems(h, res, higher, keys, path) ==
    IF Len(keys) = 0 THEN [h |-> h, v |-> res]
    ELSE LET k == keys[1]
             higher_value == h[higher.a].d[k]
             r == IF k \notin DOMAIN h[res.a].d
                  THEN deepcopy(h, higher_value)
                  ELSE _merge_values_at(h, h[res.a].d[k], higher_value, path \o k)
         IN  UpdateItems(SetItem(r.h, res, k, r.v), res, higher,
                         [i \in 1..(Len(keys) - 1) |-> keys[i + 1]], path)

\* merge_variables on objects.
merge_variables_at(h, lower, higher) ==
    IF ~Truthy(Deref(h, lower))
    THEN IF Truthy(Deref(h, higher)) THEN deepcopy(h, higher) ELSE Alloc(h, EmptyDict)
    ELSE IF ~Truthy(Deref(h, higher)) THEN deepcopy(h, lower)
    ELSE LET c == deepcopy(h, lower)
         IN  UpdateItems(c.h, c.v, higher, SeqOf(DOMAIN h[higher.a].d), "")

RECURSIVE ChainLoop(_, _, _)
\* The loop of apply_priority_chain: old_result is a deep copy for the log.
ChainLoop(h, res, configs) ==
    IF Len(configs) = 0 THEN [h |-> h, v |-> res]
    ELSE LET rest == [i \in 1..(Len(configs) - 1) |-> configs[i + 1]]
         IN  IF Truthy(Deref(h, configs[1]))
             THEN LET old_result == deepcopy(h, res)
                      m == merge_variables_at(old_result.h, res, configs[1])
                  IN  ChainLoop(m.h, m.v, rest)
             ELSE ChainLoop(h, res, rest)

\* apply_priority_chain on objects.
apply_priority_chain_at(h, ui, configs) ==
    LET c == deepcopy(h, ui) IN ChainLoop(c.h, c.v, configs)

\* _process_single_entry on objects, with the layer documents its loaders
\* returned: the entry itself when it is skipped or the chain raised, its
\* shallow copy when no layer is to apply, else the chain's result.
_process_single_entry_at(h, e, loaded) ==
    LET ev == Deref(h, e)
    IN  IF ~(Truthy(Get(ev, "type")) /\ Truthy(Get(ev, "resource_name"))
             /\ Truthy(Get(ev, "env")))
        THEN [h |-> h, v |-> e]
        ELSE LET copy == ShallowCopy(h, e)
                 keep(x) == Truthy(Deref(h, x))
                 to_apply == SelectSeq(loaded, keep)
                 pure == apply_priority_chain(ev, [i \in 1..Len(to_apply) |-> Deref(h, to_apply[i])])
             IN  IF Len(to_apply) = 0 THEN copy
                 ELSE IF pure = TypeError THEN [h |-> copy.h, v |-> e]
                 ELSE apply_priority_chain_at(copy.h, copy.v, to_apply)

----------------------------------------------------------------------------
(* Specification of calls on shared objects *)

MaxCalls == 2

\* The entries: with and without env, their tags null, a string or a list.
StoreEntries ==
    {MkEntry(Str("dev"), Absent, tags) :
        tags \in {JNull, Str("a"), List(<<Num(1)>>)}}
    \cup {MkEntry(JNull, Absent, List(<<Num(1)>>))}

\* The layer documents: tags a tag list, a plain list or a mapping.
StoreLayers ==
    {Dict([f \in {"tags"} |-> v]) :
        v \in {List(<<Tag("env", "a")>>), List(<<Num(2)>>),
               Dict([f \in {"a"} |-> List(<<Num(1)>>)])}}

\* The caller holds an entry and two layer documents, each an object tree of
\* its own.
InitStore ==
    /\ pc = "idle"
    /\ \E e \in StoreEntries, first \in StoreLayers, second \in StoreLayers :
          LET built == AllocAll(<<>>, <<e, first, second>>)
          IN  /\ heap = built.h
              /\ roots = built.q
              /\ before = <<e, first, second>>
    /\ lower_priority = Unset
    /\ higher_priority = Unset
    /\ result = Unset
    /\ ui_variables = Unset
    /\ priority_configs = <<>>
    /\ steps = <<>>
    /\ result2 = Unset
    /\ grouped = <<>>
    /\ ProcessorIdle
    /\ BatchIdle
    /\ PluginIdle

\* The number of input documents.
Inputs == Len(before)

\* What every call on objects leaves alone.
Unchanged_by_call ==
    UNCHANGED <<pc, lower_priority, higher_priority, ui_variables,
                priority_configs, steps, result, result2, grouped, processor,
                batch, plugin, before>>

\* merge_variables called on two documents the caller holds, inputs or
\* earlier results; the result joins them when the call returns.
MergeVariablesAt ==
    /\ Len(roots) < Inputs + MaxCalls
    /\ \E lo \in 1..Len(roots), hi \in 1..Len(roots) :
          /\ merge_variables(Deref(heap, roots[lo]), Deref(heap, roots[hi])) # TypeError
          /\ LET r == merge_variables_at(heap, roots[lo], roots[hi])
             IN  /\ heap' = r.h
                 /\ roots' = Append(roots, r.v)
    /\ Unchanged_by_call

\* apply_priority_chain called with any document as ui_variables and the two
\* layer documents as priority_configs.
ApplyPriorityChainAt ==
    /\ Len(roots) < Inputs + MaxCalls
    /\ \E ui \in 1..Len(roots) :
          /\ apply_priority_chain(Deref(heap, roots[ui]),
                                  <<Deref(heap, roots[2]), Deref(heap, roots[3])>>) # TypeError
          /\ LET r == apply_priority_chain_at(heap, roots[ui], <<roots[2], roots[3]>>)
             IN  /\ heap' = r.h
                 /\ roots' = Append(roots, r.v)
    /\ Unchanged_by_call

\* _process_single_entry called on the entry with none, one or both layer
\* documents loaded.
ProcessSingleEntryAt ==
    /\ Len(roots) < Inputs + MaxCalls
    /\ \E loaded \in {<<>>, <<roots[2]>>, <<roots[2], roots[3]>>} :
          LET r == _process_single_entry_at(heap, roots[1], loaded)
          IN  /\ heap' = r.h
              /\ roots' = Append(roots, r.v)
    /\ Unchanged_by_call

NextStore == MergeVariablesAt \/ ApplyPriorityChainAt \/ ProcessSingleEntryAt

SpecStore == InitStore /\ [][NextStore]_vars

----------------------------------------------------------------------------
(* Properties of calls on shared objects (SpecStore) *)

\* The objects the input documents are made of.
InputObjects == UNION {Reach(heap, roots[i]) : i \in 1..Inputs}

\* The result at position r of roots shares an object with an input.
SharesWithInput(r) == Reach(heap, roots[r]) \cap InputObjects # {}

\* C22: after merge_variables, apply_priority_chain or the processing of an
\* entry returns, the entry and every layer document have the value they had
\* before, also when results that share objects with them go through
\* further merges.
C22_InputsNeverAltered ==
    \A i \in 1..Inputs : Deref(heap, roots[i]) = before[i]

\* Two calls returned, the first result shares an object with a layer
\* document without being an input itself, and the inputs are as before.
C22_Witness ==
    /\ Len(roots) = Inputs + 2
    /\ roots[Inputs + 1] \notin {roots[i] : i \in 1..Inputs}
    /\ SharesWithInput(Inputs + 1)
    /\ \A i \in 1..Inputs : Deref(heap, roots[i]) = before[i]

====
